------------------------- MODULE SearchFoldersProofs -------------------------
(***************************************************************************)
(* Proofs about SearchFolders.                                             *)
(*                                                                         *)
(* BaseInv holds for any number of clients: types, counts, what is known   *)
(* of the messages with changes under way, objects with their threads.     *)
(* SoleInv needs calls that come one after another.  CompleteInv adds      *)
(* where the last change of each message is and what is left of a search;  *)
(* MatchesAreFound follows when neither is left.                           *)
(***************************************************************************)
EXTENDS SearchFolders, FiniteSetTheorems, WellFoundedInduction, TLAPS

\* A message that has been saved is never forgotten; only such messages have changes under
\* way, are found by a search or have a row.
Known(m) == msgs[m] # None

KnownInv ==
    /\ \A w \in Writers : writer[w] # None => Known(writer[w].e.m)
    /\ \A i \in 1 .. Len(queue) : Known(queue[i].m)
    /\ \A i \in DOMAIN proc.batch : Known(proc.batch[i].m)
    /\ proc.at = "update" => \A m \in proc.group : Known(m)
    /\ \A o \in Objs : \A m \in search[o].cands : Known(m)
    /\ \A m \in Msgs : results[m] # "none" => Known(m)

\* The object on the map exists, and an object is not free exactly while it has a thread.
ObjInv ==
    /\ map # None => obj[map].live /\ ~obj[map].exit
    /\ \A o \in Objs :
          /\ obj[o].live => obj[o].crit \in Criteria
          /\ search[o].at = "none" <=> obj[o].free
          /\ ~obj[o].free => obj[o].live
    /\ proc.at = "update" => map # None /\ proc.tries # 0

\* Calls: who waits for a thread is the only one who has its object.
CallInv ==
    \A c \in Clients :
        /\ client[c].at = "wait" => /\ client[c].o \in Objs /\ obj[client[c].o].live
                                    /\ client[c].o # map
        /\ client[c].at \in {"rebuild", "insert", "save"} => client[c].op = "set"
        /\ client[c].op = "set" => client[c].crit \in Criteria
        /\ \A d \in Clients : client[c].at = "wait" /\ client[d].at = "wait"
                                 /\ client[c].o = client[d].o => c = d

\* Nothing is under way while the server does not run.
DownInv ==
    /\ ~up => /\ \A w \in Writers : writer[w] = None
              /\ queue = <<>> /\ map = None
              /\ \A o \in Objs : ~obj[o].live
              /\ \A c \in Clients : client[c].at = "idle"
    /\ proc.at = "idle" \/ ~up => proc.at = "idle" /\ DOMAIN proc.batch = {}

\* The calls on the folder come one after another. Two calls of AddSearchFolder that overlap
\* each enter an object, of which the map keeps one; the other's search goes on unowned.
OneClient == \A c, d \in Clients : c = d

\* With one client at a time the states of object, call and status fit together.
OwnInv ==
    /\ \A o \in Objs : obj[o].live =>
          map = o \/ \E c \in Clients : client[c].at = "wait" /\ client[c].o = o
    /\ \A c \in Clients :
          /\ client[c].at \in {"wait", "stopped", "rebuild", "reset", "insert", "delete"}
                => map = None
          /\ client[c].at = "save" => map # None
          /\ client[c].at # "idle" => ~removed
          /\ client[c].at \in {"reset", "insert"} /\ client[c].op = "set" => status = "rebuild"
    /\ up /\ map = None /\ status = "running" /\ saved # None /\ ~removed
          => \E c \in Clients : client[c].at \in {"wait", "stopped"}

\* The row that a message n should have.
RowFor(n) == IF n.hit THEN IF n.read THEN "read" ELSE "unread" ELSE "none"

\* Processing an event of this type and folder will give n, which has row r, that row.
Fits(n, r, type, f) ==
    /\ type # "delete" /\ f = n.folder
    /\ type = "add" => r \in {"none", RowFor(n)}

Told(m) == \A w \in Writers : ~InHand(w, m)
Queued(m) == \E i \in 1 .. Len(queue) : queue[i].m = m
Batched(m) == \E i \in DOMAIN proc.batch : proc.batch[i].m = m
Living(m) == msgs[m] # None /\ msgs[m].live

\* The last change of m in the queue, and in the batch.
LastQueued(m, i) ==
    queue[i].m = m /\ \A j \in 1 .. Len(queue) : queue[j].m = m => j <= i
LastBatched(m, i) ==
    proc.batch[i].m = m /\ \A j \in DOMAIN proc.batch : proc.batch[j].m = m => j <= i

Single(m) == \A v, w \in Writers : InHand(v, m) /\ InHand(w, m) => v = w
HandFits(m) ==
    \A w \in Writers : InHand(w, m) =>
        Fits(msgs[m], results[m], writer[w].e.type,
             IF writer[w].ready THEN writer[w].e.folder ELSE msgs[m].folder)
QueueFits(m) ==
    Told(m) => \A i \in 1 .. Len(queue) : LastQueued(m, i) =>
        Fits(msgs[m], results[m], queue[i].type, queue[i].folder)
BatchFits(m) ==
    Told(m) /\ ~Queued(m) /\ m \notin strayed =>
        /\ \A i \in DOMAIN proc.batch : LastBatched(m, i) =>
              Fits(msgs[m], results[m], proc.batch[i].type, proc.batch[i].folder)
        /\ ~Batched(m) /\ proc.at = "update" /\ m \in proc.group =>
              Fits(msgs[m], results[m], proc.type, proc.folder)

\* Of each message that one writer at a time has changed, the last change under way fits
\* the message.
LastFits(m) == Single(m) /\ (Living(m) => HandFits(m) /\ QueueFits(m) /\ BatchFits(m))
LastInv == \A m \in Msgs \ crossed : LastFits(m)

\* The sort keeps the order of the changes of a message, unless it has strayed.
BatchOrdered ==
    \A m \in Msgs \ strayed, i, j \in DOMAIN proc.batch :
        i < j /\ proc.batch[i].m = m /\ proc.batch[j].m = m
            => proc.batch[i].folder <= proc.batch[j].folder

\* The search of the folder has yet to begin, or has failed.
Unfinished ==
    \/ search[map].at \in {"reset", "never"}
    \/ search[map].at \in {"none", "end"} /\ status # "running"

\* The search will come to m, which has no row so far.
Ahead(m) ==
    /\ results[m] = "none"
    /\ \/ search[map].at \in {"folders", "rows"} /\ msgs[m].folder \in search[map].todo
       \/ search[map].at = "rows" /\ m \in search[map].cands

\* A message of the searched folders has its row, or the search or a change under way will
\* see to it.
FoundInv ==
    up /\ ~lost /\ map # None =>
        \A m \in Msgs \ (strayed \cup crossed) :
            Living(m) /\ msgs[m].folder \in Scope[obj[map].crit]
                => Unfinished \/ Ahead(m) \/ UnderWay(m) \/ results[m] = RowFor(msgs[m])

\* The same of what the next start will load.
FoundDown ==
    ~up /\ ~lost /\ status = "running" /\ saved # None /\ ~removed =>
        \A m \in Msgs \ (strayed \cup crossed) :
            Living(m) /\ msgs[m].folder \in Scope[saved] => results[m] = RowFor(msgs[m])

-------------------------------------------------------------------------------
(* Types, without the counts.                                              *)

ResultTypes == results \in [Msgs -> Rows]
Types1 == StoreTypes /\ ResultTypes /\ PropTypes /\ FolderTypes /\ QueueTypes

\* The fields of a message, and of a call, that are not null.
LEMMA KnownMessage ==
    ASSUME StoreTypes, NEW m \in Msgs, msgs[m] # None
    PROVE  msgs[m] \in Message /\ msgs[m].folder \in Folders /\ Row(m) \in Rows
BY DEF StoreTypes, Message, Row, Rows

\* What NumbersAssumption says of each constant.
LEMMA Numbers ==
    /\ BatchSize \in Nat /\ BatchSize > 0 /\ RowBatch \in Nat /\ RowBatch > 0
    /\ Attempts \in Nat /\ Attempts > 0 /\ MaxQueue \in Nat /\ MaxChanges \in Nat
BY NumbersAssumption

\* A subset of the batch is a batch.
LEMMA PartOfBatch ==
    ASSUME NEW b \in Batches, NEW I \in SUBSET DOMAIN b
    PROVE  [i \in I |-> b[i]] \in Batches
<1>1. PICK J \in SUBSET (1 .. BatchSize) : b \in [J -> Event]
    BY DEF Batches
<1>2. [i \in I |-> b[i]] \in [I -> Event] /\ I \in SUBSET (1 .. BatchSize)
    BY <1>1
<1> QED BY <1>2 DEF Batches

\* The events of a batch.
LEMMA BatchEvents ==
    ASSUME NEW b \in Batches, NEW i \in DOMAIN b
    PROVE  /\ b[i] \in Event /\ b[i].m \in Msgs /\ b[i].type \in Types /\ b[i].folder \in Folders
           /\ i \in 1 .. BatchSize
BY DEF Batches, Event

\* The empty batch.
LEMMA NoEventsBatch == NoEvents \in Batches /\ DOMAIN NoEvents = {}
<1>1. NoEvents \in [{} -> Event] /\ {} \in SUBSET (1 .. BatchSize)
    BY DEF NoEvents
<1> QED BY <1>1 DEF Batches, NoEvents

\* What a change of a message stores.
Stores(w, m, new, type) ==
    /\ Store(w, m, new, type)
    /\ new.live <=> type # "delete"
    /\ type = "add" => msgs[m] = None

\* Every change of a message is one of those.
LEMMA ChangeStores ==
    ASSUME StoreTypes, Change
    PROVE  \E w \in Writers, m \in Msgs, new \in Message, type \in Types : Stores(w, m, new, type)
<1>1. PICK w \in Writers, m \in Msgs :
          SaveObject(w, m) \/ MoveObjects(w, m) \/ DeleteObjectSoft(w, m)
    BY DEF Change
<1>2. CASE SaveObject(w, m)
  <2>1. PICK c \in Contents :
            \/ /\ msgs[m] = None
               /\ \E f \in Folders :
                     Store(w, m, [folder |-> f, live |-> TRUE, hit |-> c.hit, read |-> c.read], "add")
            \/ /\ msgs[m] # None /\ msgs[m].live
               /\ Store(w, m, [msgs[m] EXCEPT !.hit = c.hit, !.read = c.read], "modify")
      BY <1>2 DEF SaveObject
  <2>2. c.hit \in BOOLEAN /\ c.read \in BOOLEAN
      BY ContentsAssumption
  <2>3. CASE msgs[m] = None
    <3>1. PICK f \in Folders :
              Store(w, m, [folder |-> f, live |-> TRUE, hit |-> c.hit, read |-> c.read], "add")
        BY <2>1, <2>3
    <3> DEFINE new == [folder |-> f, live |-> TRUE, hit |-> c.hit, read |-> c.read]
    <3>2. new \in Message /\ new.live
        BY <2>2 DEF Message
    <3> HIDE DEF new
    <3>3. Stores(w, m, new, "add")
        BY <2>3, <3>1, <3>2 DEF Stores, new
    <3> QED BY <3>2, <3>3 DEF Types
  <2>4. CASE msgs[m] # None
    <3> DEFINE new == [msgs[m] EXCEPT !.hit = c.hit, !.read = c.read]
    <3>1. msgs[m] \in Message /\ msgs[m].live /\ Store(w, m, new, "modify")
        BY <2>1, <2>4 DEF StoreTypes
    <3>2. new \in Message /\ new.live
        BY <2>2, <3>1 DEF Message
    <3> HIDE DEF new
    <3>3. Stores(w, m, new, "modify")
        BY <3>1, <3>2 DEF Stores
    <3> QED BY <3>2, <3>3 DEF Types
  <2> QED BY <2>3, <2>4
<1>3. CASE MoveObjects(w, m)
  <2>1. PICK f \in Folders : Store(w, m, [msgs[m] EXCEPT !.folder = f, !.live = TRUE], "modify")
      BY <1>3 DEF MoveObjects
  <2> DEFINE new == [msgs[m] EXCEPT !.folder = f, !.live = TRUE]
  <2>2. msgs[m] \in Message
      BY <1>3 DEF MoveObjects, StoreTypes
  <2>3. new \in Message /\ new.live
      BY <2>2 DEF Message
  <2> HIDE DEF new
  <2>4. Stores(w, m, new, "modify")
      BY <2>1, <2>3 DEF Stores, new
  <2> QED BY <2>3, <2>4 DEF Types
<1>4. CASE DeleteObjectSoft(w, m)
  <2> DEFINE new == [msgs[m] EXCEPT !.live = FALSE]
  <2>1. msgs[m] \in Message /\ Store(w, m, new, "delete")
      BY <1>4 DEF DeleteObjectSoft, StoreTypes
  <2>2. new \in Message /\ ~new.live
      BY <2>1 DEF Message
  <2> HIDE DEF new
  <2>3. Stores(w, m, new, "delete")
      BY <2>1, <2>2 DEF Stores
  <2> QED BY <2>2, <2>3 DEF Types
<1> QED BY <1>1, <1>2, <1>3, <1>4

\* The transaction of a writer keeps the types.
LEMMA StoreKeepsTypes ==
    ASSUME Types1, NEW w \in Writers, NEW m \in Msgs, NEW new \in Message, NEW type \in Types,
           Store(w, m, new, type)
    PROVE  Types1'
<1>1. StoreTypes'
    BY NumbersAssumption DEF Types1, StoreTypes, Store, Event, Message
<1>2. PropTypes'
    BY DEF Types1, PropTypes, Store, props, history
<1> QED BY <1>1, <1>2 DEF Types1, ResultTypes, FolderTypes, QueueTypes, Store, rows, folder

\* So does the notification of the search folders.
LEMMA NotifyKeepsTypes ==
    ASSUME Types1, NEW w \in Writers, writer[w] # None => msgs[writer[w].e.m] # None, Notify(w)
    PROVE  Types1'
<1>1. CASE AddNotification(w)
  <2>1. StoreTypes'
      BY <1>1 DEF Types1, StoreTypes, AddNotification, Event, Message
  <2> QED BY <1>1, <2>1 DEF Types1, ResultTypes, FolderTypes, QueueTypes, PropTypes, AddNotification,
                         rows, folder, props, history
<1>2. CASE UpdateSearchFolders(w)
  <2>1. StoreTypes'
      BY <1>2 DEF Types1, StoreTypes, UpdateSearchFolders
  <2>2. writer[w].e \in Event /\ queue \in Seq(Event) /\ Len(queue) \in Nat /\ MaxQueue \in Nat
      BY <1>2, NumbersAssumption DEF Types1, StoreTypes, QueueTypes, UpdateSearchFolders
  <2>3. queue' \in Seq(Event) /\ Len(queue') = Len(queue) + 1
      BY <1>2, <2>2 DEF UpdateSearchFolders
  <2>4. QueueTypes'
      BY <1>2, <2>2, <2>3 DEF Types1, QueueTypes, UpdateSearchFolders
  <2> QED BY <1>2, <2>1, <2>4 DEF Types1, ResultTypes, FolderTypes, PropTypes,
                         UpdateSearchFolders, rows, folder, props, history
<1> QED BY <1>1, <1>2 DEF Notify

\* What FlushEvents does if it takes n events.
Flushed(n) ==
    /\ n <= Len(queue)
    /\ proc' = [proc EXCEPT !.at = "next", !.batch = [i \in 1 .. n |-> queue[i]]]
    /\ Len(queue') = Len(queue) - n
    /\ \A i \in 1 .. Len(queue') : queue'[i] = queue[i + n]
    /\ strayed' = strayed \cup OutOfOrder([i \in 1 .. n |-> queue[i]])

\* FlushEvents keeps the types.
LEMMA FlushKeepsTypes ==
    ASSUME Types1, FlushEvents
    PROVE  /\ Types1'
           /\ \E n \in 1 .. BatchSize : Flushed(n)
<1> DEFINE n == IF Len(queue) < BatchSize THEN Len(queue) ELSE BatchSize
           events == [i \in 1 .. n |-> queue[i]]
<1>1. /\ proc' = [proc EXCEPT !.at = "next", !.batch = events]
      /\ queue' = SubSeq(queue, n + 1, Len(queue))
      /\ strayed' = strayed \cup OutOfOrder(events)
      /\ queue # <<>>
    BY DEF FlushEvents
<1>2. BatchSize \in Nat /\ BatchSize > 0
    BY NumbersAssumption
<1>3. queue \in Seq(Event) /\ Len(queue) \in Nat /\ Len(queue) > 0
    BY <1>1 DEF Types1, QueueTypes
<1>4. n \in 1 .. BatchSize /\ n <= Len(queue) /\ (n < BatchSize => n = Len(queue))
    BY <1>2, <1>3
<1> HIDE DEF n
<1>5. queue' \in Seq(Event) /\ Len(queue') = Len(queue) - n
    BY <1>1, <1>3, <1>4
<1>6. \A i \in 1 .. Len(queue') : queue'[i] = queue[i + n]
    BY <1>1, <1>3, <1>4, <1>5
<1>7. events \in Batches
  <2>1. \A i \in 1 .. n : queue[i] \in Event /\ i \in 1 .. BatchSize
      BY <1>2, <1>3, <1>4
  <2>2. events \in [1 .. n -> Event] /\ 1 .. n \in SUBSET (1 .. BatchSize)
      BY <2>1
  <2> QED BY <2>2 DEF Batches
<1>8. QueueTypes'
  <2>1. Len(queue') <= MaxQueue
      BY <1>3, <1>4, <1>5, Numbers DEF Types1, QueueTypes
  <2> QED BY <1>1, <1>5, <1>7, <2>1 DEF Types1, QueueTypes
<1>9. PropTypes'
    BY <1>1 DEF Types1, PropTypes, FlushEvents, OutOfOrder, props
<1>10. Types1'
    BY <1>8, <1>9 DEF Types1, StoreTypes, ResultTypes, FolderTypes, FlushEvents, store, rows, folder
<1> QED BY <1>1, <1>4, <1>5, <1>6, <1>10 DEF Flushed

\* The run of events that NextGroup takes, if i is the first event in the order of the sort.
Run(i) ==
    {j \in DOMAIN proc.batch :
        /\ proc.batch[j].folder = proc.batch[i].folder
        /\ proc.batch[j].type = proc.batch[i].type
        /\ \A k \in DOMAIN proc.batch : SortedBefore(k, j) =>
              /\ proc.batch[k].folder = proc.batch[i].folder
              /\ proc.batch[k].type = proc.batch[i].type}

\* What NextGroup does to the thread if i is that event.
Grouped(i) ==
    proc' = [at |-> IF map = None THEN "next" ELSE "update",
             batch |-> [j \in DOMAIN proc.batch \ Run(i) |-> proc.batch[j]],
             group |-> {proc.batch[j].m : j \in Run(i)},
             type |-> proc.batch[i].type, folder |-> proc.batch[i].folder,
             tries |-> Attempts]

\* NextGroup keeps the types.
LEMMA GroupKeepsTypes ==
    ASSUME Types1, NextGroup
    PROVE  /\ Types1'
           /\ \E i \in DOMAIN proc.batch : Grouped(i)
<1>1. PICK i \in DOMAIN proc.batch : Grouped(i)
    BY DEF NextGroup, Run, Grouped
<1>2. proc.batch \in Batches
    BY DEF Types1, QueueTypes
<1>3. [j \in DOMAIN proc.batch \ Run(i) |-> proc.batch[j]] \in Batches
    BY <1>2, PartOfBatch
<1>4. {proc.batch[j].m : j \in Run(i)} \in SUBSET Msgs
    BY <1>2, BatchEvents DEF Run
<1>5. proc.batch[i].type \in Types /\ proc.batch[i].folder \in Folders
    BY <1>1, <1>2, BatchEvents
<1>6. proc' \in [at : {"idle", "next", "update"}, batch : Batches, group : SUBSET Msgs,
                 type : Types, folder : Folders \cup {0}, tries : 0 .. Attempts]
    BY <1>1, <1>3, <1>4, <1>5, NumbersAssumption DEF Grouped
<1>7. Types1'
    BY <1>6 DEF Types1, QueueTypes, StoreTypes, ResultTypes, FolderTypes, PropTypes, NextGroup,
                store, rows, folder, props, history
<1> QED BY <1>1, <1>7

\* What else the thread of the queue does.
LEMMA ProcessKeepsTypes ==
    ASSUME Types1, FlushDone \/ UpdateFails, proc.at = "update" => proc.tries # 0
    PROVE  Types1'
<1>1. CASE FlushDone
  <2>1. NoFlush \in [at : {"idle", "next", "update"}, batch : Batches, group : SUBSET Msgs,
                     type : Types, folder : Folders \cup {0}, tries : 0 .. Attempts]
      BY NoEventsBatch, Numbers DEF NoFlush, Types
  <2> QED BY <1>1, <2>1 DEF FlushDone, Types1, QueueTypes, StoreTypes, ResultTypes,
           FolderTypes, PropTypes, store, rows, folder, props, history
<1>2. CASE UpdateFails
  <2>1. proc.tries - 1 \in 0 .. Attempts
      BY <1>2, Numbers DEF UpdateFails, Types1, QueueTypes
  <2>2. QueueTypes'
      BY <1>2, <2>1 DEF UpdateFails, Types1, QueueTypes
  <2>3. PropTypes'
      BY <1>2 DEF UpdateFails, Types1, PropTypes, QueueTypes, props
  <2> QED BY <1>2, <2>2, <2>3 DEF UpdateFails, Types1, StoreTypes, ResultTypes, FolderTypes,
                            store, rows, folder
<1> QED BY <1>1, <1>2

\* The rows after an update of the results.
NewRows == [m \in Msgs |-> IF m \in proc.group THEN Updated(m) ELSE results[m]]

\* ProcessMessageChange keeps the types.
LEMMA UpdateKeepsTypes ==
    ASSUME Types1, ProcessMessageChange, \A m \in proc.group : Known(m)
    PROVE  Types1' /\ results' = NewRows /\ counts' = Counted(NewRows)
           /\ proc' = [proc EXCEPT !.at = "next"]
<1>1. results' = NewRows /\ counts' = Counted(NewRows) /\ proc' = [proc EXCEPT !.at = "next"]
    BY DEF ProcessMessageChange, NewRows
<1>2. \A m \in proc.group : m \in Msgs /\ Updated(m) \in Rows
    BY KnownMessage DEF Updated, Known, Types1, QueueTypes, Rows, ResultTypes
<1>3. ResultTypes'
    BY <1>1, <1>2 DEF Types1, ResultTypes, NewRows
<1>4. QueueTypes'
    BY <1>1 DEF Types1, QueueTypes, ProcessMessageChange
<1> QED BY <1>1, <1>3, <1>4 DEF ProcessMessageChange, Types1, StoreTypes, FolderTypes, PropTypes,
               store, folder, props, history

\* Assignments to one field of a record.
LEMMA SetAt ==
    ASSUME NEW f \in [Objs -> SearchStates], NEW o \in Objs,
           NEW at \in {"none", "never", "reset", "folders", "rows", "end"},
           NEW g, g = [f EXCEPT ![o].at = at]
    PROVE  /\ g \in [Objs -> SearchStates] /\ g[o].at = at /\ g[o].todo = f[o].todo
           /\ g[o].cands = f[o].cands /\ \A p \in Objs : p # o => g[p] = f[p]
BY DEF SearchStates

\* The same for the field that says that the thread has given the object free,
LEMMA SetFree ==
    ASSUME NEW f \in [Objs -> ObjStates], NEW o \in Objs, NEW g, g = [f EXCEPT ![o].free = TRUE]
    PROVE  /\ g \in [Objs -> ObjStates] /\ g[o].free = TRUE /\ g[o].live = f[o].live
           /\ g[o].crit = f[o].crit /\ g[o].exit = f[o].exit
           /\ \A p \in Objs : p # o => g[p] = f[p]
BY DEF ObjStates

\* for the one that tells the thread to stop,
LEMMA SetExit ==
    ASSUME NEW f \in [Objs -> ObjStates], NEW o \in Objs, NEW g, g = [f EXCEPT ![o].exit = TRUE]
    PROVE  /\ g \in [Objs -> ObjStates] /\ g[o].exit = TRUE /\ g[o].live = f[o].live
           /\ g[o].crit = f[o].crit /\ g[o].free = f[o].free
           /\ \A p \in Objs : p # o => g[p] = f[p]
BY DEF ObjStates

\* and for a call that begins to wait.
LEMMA SetWait ==
    ASSUME NEW f \in [Clients -> CallStates], NEW c \in Clients, NEW o \in Objs,
           NEW g, g = [f EXCEPT ![c] = [@ EXCEPT !.at = "wait", !.o = o]]
    PROVE  /\ g \in [Clients -> CallStates] /\ g[c].at = "wait" /\ g[c].o = o
           /\ g[c].op = f[c].op /\ g[c].crit = f[c].crit
           /\ \A d \in Clients : d # c => g[d] = f[d]
BY DEF CallStates, CallPlaces

\* The steps of a search thread keep the types.
LEMMA SearchKeepsTypes ==
    ASSUME Types1, NEW o \in Objs, Search(o), search[o].at # "none" => obj[o].crit \in Criteria,
           \A m \in search[o].cands : Known(m)
    PROVE  Types1'
<1> USE DEF Types1, props, store, rows, history
<1>1. search[o] \in SearchStates /\ search \in [Objs -> SearchStates]
    BY DEF FolderTypes, SearchStates
<1>2. CASE SearchReset(o)
  <2>1. Scope[obj[o].crit] \in SUBSET Folders
      BY <1>2, ScopeAssumption DEF SearchReset
  <2>2. search' \in [Objs -> SearchStates]
      BY <1>1, <1>2, <2>1 DEF SearchReset, SearchStates
  <2>3. FolderTypes'
      BY <1>2, <2>2 DEF SearchReset, FolderTypes, SearchStates
  <2>4. PropTypes'
      BY <1>2 DEF SearchReset, PropTypes
  <2>5. ResultTypes'
      BY <1>2 DEF SearchReset, Emptied, ResultTypes, Rows
  <2> QED BY <1>2, <2>3, <2>4, <2>5 DEF SearchReset, StoreTypes, QueueTypes
<1>3. CASE SearchFails(o) \/ FolderDone(o) \/ SetRunning(o)
  <2>1. search' \in [Objs -> SearchStates]
      BY <1>1, <1>3 DEF SearchFails, FolderDone, SetRunning, SearchAt, SearchStates
  <2>2. FolderTypes' /\ PropTypes'
      BY <1>3, <2>1 DEF SearchFails, FolderDone, SetRunning, FolderTypes, PropTypes, SearchStates
  <2> QED BY <1>3, <2>2 DEF SearchFails, FolderDone, SetRunning, StoreTypes, QueueTypes, ResultTypes
<1>4. CASE SearchFolder(o)
  <2>1. PICK f \in search[o].todo, ok \in BOOLEAN :
            /\ search' = [search EXCEPT ![o] =
                  [at |-> IF ok THEN "rows" ELSE "folders", todo |-> search[o].todo \ {f},
                   cands |-> IF ok THEN {m \in Msgs : msgs[m] # None /\ msgs[m].live /\ msgs[m].folder = f}
                             ELSE {}]]
            /\ lost' = (lost \/ ~ok)
      BY <1>4 DEF SearchFolder, FolderTypes
  <2>2. search' \in [Objs -> SearchStates]
      BY <1>1, <2>1 DEF SearchStates
  <2>3. FolderTypes' /\ PropTypes'
      BY <1>4, <2>1, <2>2 DEF SearchFolder, FolderTypes, PropTypes, SearchStates
  <2> QED BY <1>4, <2>3 DEF SearchFolder, StoreTypes, QueueTypes, ResultTypes
<1>5. CASE ProcessCandidateRows(o)
  <2>1. PICK batch \in SUBSET search[o].cands : search' = [search EXCEPT ![o].cands = @ \ batch]
      BY <1>5 DEF ProcessCandidateRows
  <2>2. search' \in [Objs -> SearchStates]
      BY <1>1, <2>1 DEF SearchStates
  <2>3. FolderTypes'
      BY <1>5, <2>2 DEF ProcessCandidateRows, FolderTypes, SearchStates
  <2>4. ResultTypes'
      BY <1>5 DEF ProcessCandidateRows, ResultTypes, Rows
  <2> QED BY <1>5, <2>3, <2>4 DEF ProcessCandidateRows, StoreTypes, QueueTypes, PropTypes
<1>6. CASE SearchThreadEnds(o)
  <2>1. search' \in [Objs -> SearchStates]
      BY <1>1, <1>6 DEF SearchThreadEnds, NoSearch, SearchStates
  <2>2. obj' \in [Objs -> ObjStates]
      BY <1>6, SetFree DEF SearchThreadEnds, FolderTypes
  <2>3. FolderTypes'
      BY <1>6, <2>1, <2>2 DEF SearchThreadEnds, FolderTypes, SearchStates
  <2> QED BY <1>6, <2>3 DEF SearchThreadEnds, StoreTypes, QueueTypes, PropTypes, ResultTypes
<1> QED BY <1>2, <1>3, <1>4, <1>5, <1>6 DEF Search

\* What a call does to its own state.
LEMMA BecomesCall ==
    ASSUME FolderTypes, NEW c \in Clients,
           NEW at \in CallPlaces, Becomes(c, at)
    PROVE  /\ client' \in [Clients -> CallStates] /\ client'[c].at = at
           /\ at # "idle" => /\ client'[c].op = client[c].op /\ client'[c].crit = client[c].crit
                             /\ client'[c].o = client[c].o
           /\ at = "idle" => client'[c] = NoCall
           /\ \A d \in Clients : d # c => client'[d] = client[d]
BY DEF FolderTypes, Becomes, NoCall, CallStates, CallPlaces

\* The steps of a call keep the types.
LEMMA CallKeepsTypes ==
    ASSUME Types1, NEW c \in Clients,
           Call(c) \/ CancelSearchFolder(c) \/ AddSearchFolder(c) \/ CallStep(c)
    PROVE  Types1'
<1> USE DEF Types1, props, store, rows, history
<1>1. AfterCancel(c) \in {"rebuild", "reset", "idle"}
    BY DEF AfterCancel
<1>2. CASE Call(c)
  <2>1. client' \in [Clients -> CallStates]
      BY <1>2 DEF Call, FolderTypes, CallStates, CallPlaces
  <2> QED BY <1>2, <2>1 DEF Call, CallStates, FolderTypes, StoreTypes, QueueTypes, PropTypes, ResultTypes
<1>3. CASE CancelSearchFolder(c)
  <2>1. CASE map = None
    <3>1. client' \in [Clients -> CallStates] /\ UNCHANGED <<map, obj>>
        BY <1>1, <1>3, <2>1, BecomesCall DEF CancelSearchFolder, CallPlaces
    <3> QED BY <1>3, <3>1 DEF CancelSearchFolder, CallStates, FolderTypes, StoreTypes, QueueTypes,
                              PropTypes, ResultTypes
  <2>2. CASE map # None
    <3>0. /\ map \in Objs /\ client' = [client EXCEPT ![c] = [@ EXCEPT !.at = "wait", !.o = map]]
          /\ obj' = [obj EXCEPT ![map].exit = TRUE] /\ map' = None
        BY <1>3, <2>2 DEF CancelSearchFolder, FolderTypes
    <3>1. client' \in [Clients -> CallStates] /\ map' = None
        BY <3>0, SetWait DEF FolderTypes
    <3>2. obj' \in [Objs -> ObjStates]
        BY <3>0, SetExit DEF FolderTypes
    <3> QED BY <1>3, <3>1, <3>2 DEF CancelSearchFolder, CallStates, FolderTypes, StoreTypes, QueueTypes,
                              PropTypes, ResultTypes
  <2> QED BY <2>1, <2>2
<1>4. CASE AddSearchFolder(c)
  <2>1. client' \in [Clients -> CallStates]
      BY <1>4, BecomesCall DEF AddSearchFolder, CallPlaces
  <2>2. search' \in [Objs -> SearchStates]
      BY <1>4 DEF AddSearchFolder, SearchAt, FolderTypes, SearchStates
  <2>3. /\ map' \in Objs \cup {None}
        /\ obj' \in [Objs -> ObjStates]
      BY <1>4 DEF AddSearchFolder, FolderTypes, ObjStates, CallStates
  <2> QED BY <1>4, <2>1, <2>2, <2>3 DEF AddSearchFolder, CallStates, SearchStates, FolderTypes,
                              StoreTypes, QueueTypes, PropTypes, ResultTypes
<1>5. CASE DestroySearchFolder(c)
  <2>1. client' \in [Clients -> CallStates]
      BY <1>5, BecomesCall DEF DestroySearchFolder, CallPlaces
  <2>2. obj' \in [Objs -> ObjStates]
      BY <1>5 DEF DestroySearchFolder, FolderTypes, NoObj, ObjStates
  <2> QED BY <1>5, <2>1, <2>2 DEF DestroySearchFolder, CallStates, FolderTypes, StoreTypes, QueueTypes,
                              PropTypes, ResultTypes
<1>6. CASE SetStopped(c) \/ SetRebuild(c) \/ SaveSearchCriteria(c) \/ DeleteFolder(c)
  <2>1. client' \in [Clients -> CallStates]
      BY <1>1, <1>6, BecomesCall DEF SetStopped, SetRebuild, SaveSearchCriteria, DeleteFolder, CallPlaces
  <2>2. FolderTypes'
      BY <1>6, <2>1 DEF SetStopped, SetRebuild, SaveSearchCriteria, DeleteFolder, FolderTypes, CallStates, CallPlaces
  <2>3. PropTypes'
      BY <1>6 DEF SetStopped, SetRebuild, SaveSearchCriteria, DeleteFolder, FolderTypes, PropTypes, CallStates
  <2> QED BY <1>6, <2>2, <2>3 DEF SetStopped, SetRebuild, SaveSearchCriteria, DeleteFolder,
                              StoreTypes, QueueTypes, ResultTypes
<1>7. CASE ResetResults(c)
  <2>1. client' \in [Clients -> CallStates]
      BY <1>7, BecomesCall DEF ResetResults, CallPlaces
  <2>2. FolderTypes'
      BY <1>7, <2>1 DEF ResetResults, FolderTypes, CallStates, CallPlaces
  <2>3. ResultTypes'
      BY <1>7 DEF ResetResults, Emptied, ResultTypes, Rows
  <2> QED BY <1>7, <2>2, <2>3 DEF ResetResults, StoreTypes, QueueTypes, PropTypes
<1> QED BY <1>2, <1>3, <1>4, <1>5, <1>6, <1>7 DEF CallStep

\* The end and the start of the server keep the types.
LEMMA ServerKeepsTypes ==
    ASSUME Types1, Killed \/ LoadSearchFolders
    PROVE  Types1'
<1> USE DEF Types1, props, store, rows, history
<1>1. CASE Killed
  <2>1. NoFlush \in [at : {"idle", "next", "update"}, batch : Batches, group : SUBSET Msgs,
                     type : Types, folder : Folders \cup {0}, tries : 0 .. Attempts]
      BY NoEventsBatch, Numbers DEF NoFlush, Types
  <2>2. QueueTypes'
      BY <1>1, <2>1, Numbers DEF Killed, QueueTypes
  <2>3. FolderTypes'
      BY <1>1 DEF Killed, FolderTypes, NoObj, NoSearch, NoCall, ObjStates, SearchStates, CallStates, CallPlaces
  <2>4. PropTypes'
      BY <1>1 DEF Killed, PropTypes
  <2> QED BY <1>1, <2>2, <2>3, <2>4 DEF Killed, StoreTypes, ResultTypes
<1>2. CASE LoadSearchFolders
  <2>1. CASE UNCHANGED <<rows, map, obj, search>>
      BY <1>2, <2>1 DEF LoadSearchFolders, StoreTypes, ResultTypes, PropTypes, FolderTypes, QueueTypes
  <2>2. CASE ~UNCHANGED <<rows, map, obj, search>>
    <3>1. PICK o \in Objs, free \in BOOLEAN, at \in {"none", "reset"} :
              /\ map' = o
              /\ obj' = [obj EXCEPT ![o] = [live |-> TRUE, crit |-> saved, exit |-> FALSE,
                                            free |-> free]]
              /\ search' = [search EXCEPT ![o].at = at]
              /\ UNCHANGED rows \/ Emptied
        BY <1>2, <2>2 DEF LoadSearchFolders, SearchAt
    <3>2. /\ search' \in [Objs -> SearchStates]
          /\ obj' \in [Objs -> ObjStates]
      <4>1. search' \in [Objs -> SearchStates]
          BY <3>1, SetAt DEF FolderTypes
      <4>2. saved \in Criteria \cup {None}
          BY DEF PropTypes
      <4>3. obj' \in [Objs -> ObjStates]
          BY <3>1, <4>2 DEF FolderTypes, ObjStates
      <4> QED BY <4>1, <4>3
    <3>4. FolderTypes'
        BY <1>2, <3>1, <3>2 DEF LoadSearchFolders, FolderTypes, SearchStates
    <3>3. ResultTypes'
        BY <3>1 DEF Emptied, ResultTypes, Rows
    <3> QED BY <1>2, <3>3, <3>4 DEF LoadSearchFolders, StoreTypes, PropTypes, QueueTypes
  <2> QED BY <2>1, <2>2
<1> QED BY <1>1, <1>2

-------------------------------------------------------------------------------
(* The counts.                                                             *)

\* Sizes of sets of messages.
LEMMA Size ==
    ASSUME NEW A \in SUBSET Msgs
    PROVE  /\ IsFiniteSet(A) /\ Cardinality(A) \in Nat /\ Cardinality(A) <= Cardinality(Msgs)
           /\ Cardinality(Msgs) \in Nat
<1>1. IsFiniteSet(A)
    BY MsgsAssumption, FS_Subset
<1>2. Cardinality(A) \in Nat /\ Cardinality(Msgs) \in Nat
    BY <1>1, MsgsAssumption, FS_CardinalityType
<1>3. Cardinality(A) <= Cardinality(Msgs)
    BY MsgsAssumption, FS_Subset
<1> QED BY <1>1, <1>2, <1>3

\* The size of a set that consists of two parts.
LEMMA SizeOfUnion ==
    ASSUME NEW A \in SUBSET Msgs, NEW B \in SUBSET Msgs, A \cap B = {}
    PROVE  Cardinality(A \cup B) = Cardinality(A) + Cardinality(B)
<1>1. IsFiniteSet(A) /\ IsFiniteSet(B) /\ Cardinality(A) \in Nat /\ Cardinality(B) \in Nat
    BY Size
<1>2. Cardinality(A \cup B) = Cardinality(A) + Cardinality(B) - Cardinality(A \cap B)
    BY <1>1, FS_Union
<1>3. Cardinality(A \cap B) = 0
    BY FS_EmptySet
<1> QED BY <1>1, <1>2, <1>3

\* The size of a set that has gained some members and lost others.
LEMMA SizeOfChange ==
    ASSUME NEW A \in SUBSET Msgs, NEW B \in SUBSET Msgs
    PROVE  Cardinality(B) = Cardinality(A) + Cardinality(B \ A) - Cardinality(A \ B)
<1>1. A = (A \cap B) \cup (A \ B) /\ B = (A \cap B) \cup (B \ A)
    OBVIOUS
<1>2. (A \cap B) \cap (A \ B) = {} /\ (A \cap B) \cap (B \ A) = {}
    OBVIOUS
<1>3. A \cap B \in SUBSET Msgs /\ A \ B \in SUBSET Msgs /\ B \ A \in SUBSET Msgs
    OBVIOUS
<1>4. Cardinality(A) = Cardinality(A \cap B) + Cardinality(A \ B)
    BY <1>1, <1>2, <1>3, SizeOfUnion
<1>5. Cardinality(B) = Cardinality(A \cap B) + Cardinality(B \ A)
    BY <1>1, <1>2, <1>3, SizeOfUnion
<1>6. Cardinality(A \cap B) \in Nat /\ Cardinality(A \ B) \in Nat /\ Cardinality(B \ A) \in Nat
    BY <1>3, Size
<1> QED BY <1>4, <1>5, <1>6

\* The rows of a table of results, and the unread ones.
Shown(r) == {m \in Msgs : r[m] # "none"}
Unread(r) == {m \in Msgs : r[m] = "unread"}
Matching(r, n) == n.all = Cardinality(Shown(r)) /\ n.unread = Cardinality(Unread(r))

\* Counts that match are within their bounds.
LEMMA MatchingCounts ==
    ASSUME NEW r, NEW n, Matching(r, n), n = [all |-> n.all, unread |-> n.unread]
    PROVE  n \in [all : 0 .. Cardinality(Msgs), unread : 0 .. Cardinality(Msgs)]
<1>1. Shown(r) \in SUBSET Msgs /\ Unread(r) \in SUBSET Msgs
    BY DEF Shown, Unread
<1>2. n.all \in 0 .. Cardinality(Msgs) /\ n.unread \in 0 .. Cardinality(Msgs)
    BY <1>1, Size DEF Matching
<1> QED BY <1>2

\* Counted adds and subtracts what the update changes.
LEMMA CountedMatches ==
    ASSUME NEW new \in [Msgs -> Rows], results \in [Msgs -> Rows], Matching(results, counts)
    PROVE  Matching(new, Counted(new))
<1> DEFINE inserted == {m \in Msgs : results[m] = "none" /\ new[m] # "none"}
           deleted == {m \in Msgs : results[m] # "none" /\ new[m] = "none"}
           Flagged(r) == {m \in Msgs : results[m] \notin {"none", r} /\ new[m] = r}
           A == Shown(results)
           B == Shown(new)
           U == Unread(results)
           V == Unread(new)
           I == {m \in inserted : new[m] = "unread"}
           D == {m \in deleted : results[m] = "unread"}
<1>1. inserted = B \ A /\ deleted = A \ B
    BY DEF Shown
<1>2. V \ U = I \cup Flagged("unread") /\ I \cap Flagged("unread") = {}
    BY DEF Unread, Rows
<1>3. U \ V = D \cup Flagged("read") /\ D \cap Flagged("read") = {}
    BY DEF Unread, Rows
<1>4. /\ A \in SUBSET Msgs /\ B \in SUBSET Msgs /\ U \in SUBSET Msgs /\ V \in SUBSET Msgs
      /\ I \in SUBSET Msgs /\ D \in SUBSET Msgs
      /\ Flagged("read") \in SUBSET Msgs /\ Flagged("unread") \in SUBSET Msgs
      /\ inserted \in SUBSET Msgs /\ deleted \in SUBSET Msgs
    BY DEF Shown, Unread
<1>5. Cardinality(B) = Cardinality(A) + Cardinality(inserted) - Cardinality(deleted)
    BY <1>1, <1>4, SizeOfChange
<1>6. Cardinality(V) = Cardinality(U) + Cardinality(V \ U) - Cardinality(U \ V)
    BY <1>4, SizeOfChange
<1>7. Cardinality(V \ U) = Cardinality(I) + Cardinality(Flagged("unread"))
    BY <1>2, <1>4, SizeOfUnion
<1>8. Cardinality(U \ V) = Cardinality(D) + Cardinality(Flagged("read"))
    BY <1>3, <1>4, SizeOfUnion
<1>9. /\ Cardinality(U) \in Nat /\ Cardinality(I) \in Nat /\ Cardinality(D) \in Nat
      /\ Cardinality(Flagged("unread")) \in Nat /\ Cardinality(Flagged("read")) \in Nat
    BY <1>4, Size
<1>10. /\ Counted(new).all = counts.all + Cardinality(inserted) - Cardinality(deleted)
       /\ Counted(new).unread = counts.unread + Cardinality(I) - Cardinality(D)
                                + Cardinality(Flagged("unread")) - Cardinality(Flagged("read"))
    BY DEF Counted
<1>11. counts.all = Cardinality(A) /\ counts.unread = Cardinality(U)
    BY DEF Matching
<1> HIDE DEF inserted, deleted, Flagged, A, B, U, V, I, D
<1>12. Counted(new).all = Cardinality(B) /\ Counted(new).unread = Cardinality(V)
    BY <1>5, <1>6, <1>7, <1>8, <1>9, <1>10, <1>11
<1> QED BY <1>12 DEF Matching, B, V

\* A search adds rows and turns rows into unread ones.
LEMMA AddedMatches ==
    ASSUME results \in [Msgs -> Rows], Matching(results, counts),
           NEW found \in SUBSET Msgs, NEW unread \in SUBSET found,
           \A m \in unread : results[m] # "unread",
           NEW new \in [Msgs -> Rows],
           new = [m \in Msgs |-> CASE m \in unread -> "unread"
                                   [] m \in found \ unread /\ results[m] = "none" -> "read"
                                   [] OTHER -> results[m]],
           NEW n, n.all = counts.all + Cardinality({m \in found : results[m] = "none"}),
           n.unread = counts.unread + Cardinality(unread)
    PROVE  Matching(new, n)
<1> DEFINE A == Shown(results)
           U == Unread(results)
           added == {m \in found : results[m] = "none"}
<1>1. Shown(new) = A \cup added /\ A \cap added = {}
    BY DEF Shown
<1>2. Unread(new) = U \cup unread /\ U \cap unread = {}
  <2>1. ASSUME NEW m \in Msgs
        PROVE  new[m] = "unread" <=> results[m] = "unread" \/ m \in unread
    <3>1. CASE m \in unread
        BY <3>1
    <3>2. CASE m \notin unread /\ m \in found /\ results[m] = "none"
        BY <3>2
    <3>3. CASE m \notin unread /\ ~(m \in found /\ results[m] = "none")
        BY <3>3
    <3> QED BY <3>1, <3>2, <3>3
  <2> QED BY <2>1 DEF Unread
<1>3. A \in SUBSET Msgs /\ added \in SUBSET Msgs /\ U \in SUBSET Msgs /\ unread \in SUBSET Msgs
    BY DEF Shown, Unread
<1>4. Cardinality(Shown(new)) = Cardinality(A) + Cardinality(added)
    BY <1>1, <1>3, SizeOfUnion
<1>5. Cardinality(Unread(new)) = Cardinality(U) + Cardinality(unread)
    BY <1>2, <1>3, SizeOfUnion
<1> QED BY <1>4, <1>5 DEF Matching

\* ResetResults makes rows and counts match.
LEMMA EmptiedMatches == Emptied => Matching(results', counts')
<1> SUFFICES ASSUME Emptied PROVE Matching(results', counts')
    OBVIOUS
<1>1. Shown(results') = {} /\ Unread(results') = {}
    BY DEF Emptied, Shown, Unread
<1> QED BY <1>1, FS_EmptySet DEF Emptied, Matching

\* The counts match the rows.
CountInv == counts = [all |-> counts.all, unread |-> counts.unread] /\ Matching(results, counts)

\* What the counts have to do with the types.
LEMMA CountsAreTyped ==
    ASSUME CountInv
    PROVE  CountsMatch /\ (Types1 => TypeOK)
<1>1. CountsMatch
    BY DEF CountInv, CountsMatch, Matching, Shown, Unread
<1>2. counts \in [all : 0 .. Cardinality(Msgs), unread : 0 .. Cardinality(Msgs)]
    BY MatchingCounts DEF CountInv
<1> QED BY <1>1, <1>2 DEF Types1, TypeOK, RowTypes, ResultTypes

\* Every step keeps the counts right.
LEMMA CountsStay ==
    ASSUME Types1, Types1', CountInv, KnownInv, [Next]_vars
    PROVE  CountInv'
<1>1. CASE UNCHANGED rows
    BY <1>1 DEF CountInv, rows, Matching, Shown, Unread
<1>2. CASE Emptied
  <2>1. Matching(results', counts')
      BY <1>2, EmptiedMatches
  <2> QED BY <1>2, <2>1 DEF CountInv, Emptied, Matching, Shown, Unread
<1>3. CASE ProcessMessageChange
  <2>1. results' = NewRows /\ counts' = Counted(NewRows)
      BY <1>3, UpdateKeepsTypes DEF KnownInv, ProcessMessageChange
  <2>2. NewRows \in [Msgs -> Rows]
      BY <2>1 DEF Types1, ResultTypes
  <2>3. Matching(NewRows, Counted(NewRows))
      BY <2>2, CountedMatches DEF CountInv, Types1, ResultTypes
  <2>4. counts' = [all |-> counts'.all, unread |-> counts'.unread]
      BY <2>1 DEF Counted
  <2> QED BY <2>1, <2>3, <2>4 DEF CountInv, Matching, Shown, Unread
<1>4. ASSUME NEW o \in Objs, ProcessCandidateRows(o)
      PROVE  CountInv'
  <2> DEFINE found(batch) == {m \in batch : msgs[m].hit}
             unread(batch) == {m \in found(batch) : ~msgs[m].read /\ results[m] # "unread"}
  <2>1. PICK batch \in SUBSET search[o].cands :
             /\ results' = [m \in Msgs |->
                               CASE m \in unread(batch) -> "unread"
                                 [] m \in found(batch) \ unread(batch) /\ results[m] = "none" -> "read"
                                 [] OTHER -> results[m]]
             /\ counts' = [all |-> counts.all + Cardinality({m \in found(batch) : results[m] = "none"}),
                           unread |-> counts.unread + Cardinality(unread(batch))]
      BY <1>4 DEF ProcessCandidateRows
  <2>2. search[o].cands \in SUBSET Msgs
      BY DEF Types1, FolderTypes, SearchStates
  <2>3. /\ found(batch) \in SUBSET Msgs /\ unread(batch) \in SUBSET found(batch)
        /\ \A m \in unread(batch) : results[m] # "unread"
      BY <2>2
  <2>4. results \in [Msgs -> Rows] /\ results' \in [Msgs -> Rows] /\ Matching(results, counts)
      BY DEF Types1, ResultTypes, CountInv
  <2>5. /\ counts'.all = counts.all + Cardinality({m \in found(batch) : results[m] = "none"})
        /\ counts'.unread = counts.unread + Cardinality(unread(batch))
        /\ counts' = [all |-> counts'.all, unread |-> counts'.unread]
      BY <2>1
  <2> HIDE DEF found, unread
  <2>6. Matching(results', counts')
      BY <2>1, <2>3, <2>4, <2>5, AddedMatches
  <2> QED BY <2>5, <2>6 DEF CountInv, Matching, Shown, Unread
<1>5. CASE Change
    BY <1>1, <1>5, ChangeStores DEF Stores, Store, Types1
<1>6. CASE \E w \in Writers : Notify(w)
    BY <1>1, <1>6 DEF Notify, AddNotification, UpdateSearchFolders
<1>7. CASE Process
    BY <1>1, <1>3, <1>7 DEF Process, FlushEvents, NextGroup, FlushDone, UpdateFails
<1>8. CASE \E o \in Objs : Search(o)
    BY <1>1, <1>2, <1>4, <1>8 DEF Search, SearchReset, SearchFails, SearchFolder, FolderDone,
                                  SetRunning, SearchThreadEnds
<1>9. CASE \E c \in Clients : Call(c) \/ CancelSearchFolder(c) \/ AddSearchFolder(c) \/ CallStep(c)
    BY <1>1, <1>2, <1>9 DEF Call, CancelSearchFolder, AddSearchFolder, CallStep,
          DestroySearchFolder, SetStopped, SetRebuild, ResetResults, SaveSearchCriteria, DeleteFolder
<1>10. CASE Killed
    BY <1>1, <1>10 DEF Killed
<1>11. CASE LoadSearchFolders
    BY <1>1, <1>2, <1>11 DEF LoadSearchFolders, rows
<1>12. CASE UNCHANGED vars
    BY <1>1, <1>12 DEF vars
<1> QED BY <1>5, <1>6, <1>7, <1>8, <1>9, <1>10, <1>11, <1>12 DEF Next

-------------------------------------------------------------------------------
(* Changes are of messages that have been saved.                           *)

\* A change makes its message known and forgets none.
LEMMA KnownAfterChange ==
    ASSUME Types1, KnownInv, Change
    PROVE  KnownInv'
<1>1. PICK w \in Writers, m \in Msgs, new \in Message, type \in Types : Stores(w, m, new, type)
    BY ChangeStores DEF Types1
<1>2. new # None
    BY NoneAssumption
<1>3. \A n : n \in Msgs /\ msgs[n] # None => msgs'[n] # None
    BY <1>1, <1>2 DEF Stores, Store, Known, Types1, StoreTypes
<1>4. \A v \in Writers : writer'[v] # None => writer'[v].e.m \in Msgs /\ msgs'[writer'[v].e.m] # None
  <2> SUFFICES ASSUME NEW v \in Writers, writer'[v] # None
               PROVE  writer'[v].e.m \in Msgs /\ msgs'[writer'[v].e.m] # None
      OBVIOUS
  <2>1. CASE v = w
    <3>1. writer'[w].e.m = m /\ msgs'[m] = new
        BY <1>1 DEF Stores, Store, Types1, StoreTypes
    <3> QED BY <1>2, <2>1, <3>1 DEF Known
  <2>2. CASE v # w
    <3>1. writer'[v] = writer[v]
        BY <1>1, <2>2 DEF Stores, Store, Types1, StoreTypes
    <3>2. writer[v].e.m \in Msgs /\ Known(writer[v].e.m)
        BY <3>1 DEF Types1, StoreTypes, Event, KnownInv
    <3> QED BY <1>3, <3>1, <3>2 DEF Known
  <2> QED BY <2>1, <2>2
<1>5. \A i \in 1 .. Len(queue) : queue[i].m \in Msgs
  <2>1. \A i \in 1 .. Len(queue) : queue[i] \in Event
      BY DEF Types1, QueueTypes
  <2> QED BY <2>1 DEF Event
<1>6. \A i \in DOMAIN proc.batch : proc.batch[i].m \in Msgs
    BY BatchEvents DEF Types1, QueueTypes
<1>7. proc.group \in SUBSET Msgs /\ \A o \in Objs : search[o].cands \in SUBSET Msgs
    BY DEF Types1, QueueTypes, FolderTypes, SearchStates
<1>8. UNCHANGED <<queue, proc, search, results>>
    BY <1>1 DEF Stores, Store, rows, folder
<1>9. /\ \A i \in 1 .. Len(queue) : msgs'[queue[i].m] # None
      /\ \A i \in DOMAIN proc.batch : msgs'[proc.batch[i].m] # None
      /\ proc.at = "update" => \A n \in proc.group : msgs'[n] # None
    BY <1>3, <1>5, <1>6, <1>7, <1>8 DEF KnownInv, Known
<1>10. /\ \A o \in Objs : \A n \in search[o].cands : msgs'[n] # None
       /\ \A n \in Msgs : results[n] # "none" => msgs'[n] # None
    BY <1>3, <1>7, <1>8 DEF KnownInv, Known
<1> QED BY <1>4, <1>8, <1>9, <1>10 DEF KnownInv, Known

\* A change goes from its writer to the queue.
LEMMA KnownAfterNotify ==
    ASSUME Types1, KnownInv, NEW w \in Writers, Notify(w)
    PROVE  KnownInv'
<1>1. UNCHANGED <<msgs, proc, search, results>>
    BY DEF Notify, AddNotification, UpdateSearchFolders, folder, rows
<1>2. \A v \in Writers : writer'[v] # None => writer[v] # None /\ writer'[v].e.m = writer[v].e.m
    BY NoneAssumption
       DEF Notify, AddNotification, UpdateSearchFolders, Types1, StoreTypes, Event
<1>3. \A i \in 1 .. Len(queue') :
          \/ i \in 1 .. Len(queue) /\ queue'[i] = queue[i]
          \/ writer[w] # None /\ queue'[i] = writer[w].e
  <2>1. CASE AddNotification(w)
      BY <2>1 DEF AddNotification
  <2>2. CASE UpdateSearchFolders(w)
    <3>1. queue \in Seq(Event) /\ writer[w].e \in Event
        BY <2>2 DEF UpdateSearchFolders, Types1, QueueTypes, StoreTypes
    <3> QED BY <2>2, <3>1 DEF UpdateSearchFolders
  <2> QED BY <2>1, <2>2 DEF Notify
<1> QED BY <1>1, <1>2, <1>3 DEF KnownInv, Known

\* Changes go from the queue to the batch and on to the results.
LEMMA KnownAfterProcess ==
    ASSUME Types1, KnownInv, Process
    PROVE  KnownInv'
<1>1. UNCHANGED <<msgs, writer, search>>
    BY DEF Process, FlushEvents, NextGroup, FlushDone, ProcessMessageChange, UpdateFails, folder, store
<1>2. CASE FlushEvents
  <2>1. PICK n \in 1 .. BatchSize : Flushed(n)
      BY <1>2, FlushKeepsTypes
  <2>2. proc'.at = "next" /\ proc'.batch = [i \in 1 .. n |-> queue[i]]
      BY <2>1 DEF Types1, QueueTypes, Flushed
  <2>3. \A i \in 1 .. n : Known(queue[i].m)
      BY <2>1 DEF KnownInv, Types1, QueueTypes, Flushed
  <2>4. ASSUME NEW i \in 1 .. Len(queue')
        PROVE  Known(queue'[i].m)
    <3>1. Len(queue) \in Nat
        BY DEF Types1, QueueTypes
    <3>2. i + n \in 1 .. Len(queue) /\ queue'[i] = queue[i + n]
        BY <2>1, <3>1 DEF Flushed
    <3> QED BY <3>2 DEF KnownInv
  <2>5. UNCHANGED results
      BY <1>2 DEF FlushEvents, rows
  <2> QED BY <1>1, <2>2, <2>3, <2>4, <2>5 DEF KnownInv, Known
<1>3. CASE NextGroup
  <2>1. PICK i \in DOMAIN proc.batch : Grouped(i)
      BY <1>3, GroupKeepsTypes
  <2>2. /\ proc'.batch = [j \in DOMAIN proc.batch \ Run(i) |-> proc.batch[j]]
        /\ proc'.group = {proc.batch[j].m : j \in Run(i)}
      BY <2>1 DEF Grouped
  <2>3. Run(i) \subseteq DOMAIN proc.batch
      BY DEF Run
  <2>4. UNCHANGED <<results, queue>>
      BY <1>3 DEF NextGroup, rows
  <2> QED BY <1>1, <2>2, <2>3, <2>4 DEF KnownInv, Known
<1>4. CASE FlushDone
    BY <1>1, <1>4, NoEventsBatch DEF FlushDone, NoFlush, KnownInv, Known, rows
<1>5. CASE ProcessMessageChange
  <2>1. results' = NewRows /\ proc' = [proc EXCEPT !.at = "next"]
      BY <1>5, UpdateKeepsTypes DEF KnownInv, ProcessMessageChange
  <2>2. proc'.at = "next" /\ proc'.batch = proc.batch
      BY <2>1 DEF Types1, QueueTypes
  <2>3. \A m \in Msgs : results'[m] # "none" => Known(m)
      BY <1>5, <2>1 DEF NewRows, KnownInv, ProcessMessageChange
  <2>4. UNCHANGED queue
      BY <1>5 DEF ProcessMessageChange
  <2> QED BY <1>1, <2>2, <2>3, <2>4 DEF KnownInv, Known
<1>6. CASE UpdateFails
  <2>1. proc'.batch = proc.batch /\ proc'.group = proc.group /\ proc.at = "update"
      BY <1>6 DEF UpdateFails, Types1, QueueTypes
  <2>2. UNCHANGED <<queue, results>>
      BY <1>6 DEF UpdateFails, rows
  <2> QED BY <1>1, <2>1, <2>2 DEF KnownInv, Known
<1> QED BY <1>2, <1>3, <1>4, <1>5, <1>6 DEF Process

\* A search finds known messages only.
LEMMA KnownAfterSearch ==
    ASSUME Types1, KnownInv, NEW o \in Objs, Search(o)
    PROVE  KnownInv'
<1>1. UNCHANGED <<msgs, writer, queue, proc>>
    BY DEF Search, SearchReset, SearchFails, SearchFolder, ProcessCandidateRows, FolderDone,
           SetRunning, SearchThreadEnds, store
<1>2. SUFFICES /\ \A p \in Objs : \A m \in search'[p].cands : Known(m)
               /\ \A m \in Msgs : results'[m] # "none" => Known(m)
    BY <1>1 DEF KnownInv, Known
<1>3. search \in [Objs -> SearchStates]
    BY DEF Types1, FolderTypes
<1>4. CASE SearchReset(o)
    BY <1>3, <1>4 DEF SearchReset, Emptied, KnownInv
<1>5. CASE SearchFails(o) \/ SetRunning(o)
  <2>1. \A p \in Objs : search'[p].cands = search[p].cands
      BY <1>3, <1>5, SetAt DEF SearchFails, SetRunning, SearchAt
  <2> QED BY <1>5, <2>1 DEF SearchFails, SetRunning, KnownInv, rows
<1>6. CASE SearchFolder(o)
    BY <1>3, <1>6 DEF SearchFolder, KnownInv, Known, rows
<1>7. CASE ProcessCandidateRows(o)
  <2>1. PICK batch \in SUBSET search[o].cands :
            /\ search' = [search EXCEPT ![o].cands = @ \ batch]
            /\ \A m \in Msgs : results'[m] # "none" => results[m] # "none" \/ m \in batch
      BY <1>7 DEF ProcessCandidateRows
  <2>2. \A p \in Objs : search'[p].cands \subseteq search[p].cands
      BY <1>3, <2>1 DEF SearchStates
  <2> QED BY <2>1, <2>2 DEF KnownInv
<1>8. CASE FolderDone(o)
  <2>1. \A p \in Objs : search'[p].cands \subseteq search[p].cands
      BY <1>3, <1>8 DEF FolderDone, SearchStates
  <2> QED BY <1>8, <2>1 DEF FolderDone, KnownInv, rows
<1>9. CASE SearchThreadEnds(o)
    BY <1>3, <1>9 DEF SearchThreadEnds, KnownInv, NoSearch, rows
<1> QED BY <1>4, <1>5, <1>6, <1>7, <1>8, <1>9 DEF Search

\* Calls and the server bring no message into play.
LEMMA KnownAfterRest ==
    ASSUME Types1, KnownInv,
           \/ \E c \in Clients : Call(c) \/ CancelSearchFolder(c) \/ AddSearchFolder(c) \/ CallStep(c)
           \/ Killed \/ LoadSearchFolders
    PROVE  KnownInv'
<1>1. CASE \E c \in Clients : Call(c) \/ CancelSearchFolder(c) \/ CallStep(c)
  <2>1. UNCHANGED <<msgs, writer, queue, proc, search>> /\ (UNCHANGED results \/ Emptied)
      BY <1>1 DEF Call, CancelSearchFolder, CallStep, DestroySearchFolder, SetStopped, SetRebuild,
                  ResetResults, SaveSearchCriteria, DeleteFolder, store, rows
  <2> QED BY <2>1 DEF KnownInv, Known, Emptied
<1>2. ASSUME NEW c \in Clients, AddSearchFolder(c)
      PROVE  KnownInv'
  <2>1. PICK o \in Objs, at \in {"reset", "never"} : search' = [search EXCEPT ![o].at = at]
      BY <1>2 DEF AddSearchFolder, SearchAt
  <2>2. \A p \in Objs : search'[p].cands = search[p].cands
      BY <2>1, SetAt DEF Types1, FolderTypes
  <2>3. UNCHANGED <<msgs, writer, queue, proc, results>>
      BY <1>2 DEF AddSearchFolder, store, rows
  <2> QED BY <2>2, <2>3 DEF KnownInv, Known
<1>3. CASE Killed
    BY <1>3, NoEventsBatch DEF Killed, KnownInv, Known, NoFlush, NoSearch, rows
<1>4. CASE LoadSearchFolders
  <2>1. UNCHANGED <<msgs, writer, queue, proc>> /\ (UNCHANGED results \/ Emptied)
      BY <1>4 DEF LoadSearchFolders, store, rows
  <2>2. \/ UNCHANGED search
        \/ \E o \in Objs, at \in {"none", "reset"} : search' = [search EXCEPT ![o].at = at]
      BY <1>4 DEF LoadSearchFolders, SearchAt
  <2>3. \A p \in Objs : search'[p].cands = search[p].cands
      BY <2>2, SetAt DEF Types1, FolderTypes
  <2> QED BY <2>1, <2>3 DEF KnownInv, Known, Emptied
<1> QED BY <1>1, <1>2, <1>3, <1>4

-------------------------------------------------------------------------------
(* Objects, calls and the server.                                          *)

\* What the objects, the calls and the thread of the queue look like for the others.
LiveInv == ObjInv /\ CallInv /\ DownInv

\* A search thread leaves everything but its own state, the results and the status alone.
LEMMA SearchFrame ==
    ASSUME Types1, NEW o \in Objs, Search(o)
    PROVE  /\ UNCHANGED <<store, map, client, queue, proc, up, saved, removed>>
           /\ search[o].at # "none" /\ \A p \in Objs : p # o => search'[p] = search[p]
           /\ ~SearchThreadEnds(o) => obj' = obj /\ search'[o].at # "none"
           /\ SearchThreadEnds(o) => /\ search'[o].at = "none" /\ search[o].at = "end"
                                     /\ obj' = [obj EXCEPT ![o].free = TRUE]
                                     /\ UNCHANGED <<rows, props>>
<1>1. search \in [Objs -> SearchStates]
    BY DEF Types1, FolderTypes
<1>2. CASE SearchReset(o)
    BY <1>1, <1>2 DEF SearchReset, SearchThreadEnds, props
<1>3. CASE SearchFails(o) \/ SetRunning(o)
    BY <1>1, <1>3, SetAt DEF SearchFails, SetRunning, SearchAt, SearchThreadEnds, props
<1>4. CASE SearchFolder(o)
    BY <1>1, <1>4 DEF SearchFolder, SearchThreadEnds, props
<1>5. CASE ProcessCandidateRows(o)
    BY <1>1, <1>5 DEF ProcessCandidateRows, SearchThreadEnds, SearchStates, props
<1>6. CASE FolderDone(o)
    BY <1>1, <1>6 DEF FolderDone, SearchThreadEnds, SearchStates, props
<1>7. CASE SearchThreadEnds(o)
    BY <1>1, <1>7 DEF SearchThreadEnds, NoSearch, props
<1> QED BY <1>2, <1>3, <1>4, <1>5, <1>6, <1>7 DEF Search

\* A search thread keeps object and thread together.
LEMMA LiveAfterSearch ==
    ASSUME Types1, LiveInv, NEW o \in Objs, Search(o)
    PROVE  LiveInv'
<1>1. /\ UNCHANGED <<map, client, queue, proc, up, writer>>
      /\ search[o].at # "none" /\ \A p \in Objs : p # o => search'[p] = search[p]
    BY SearchFrame DEF store
<1>2. /\ \A p \in Objs : /\ obj'[p].live = obj[p].live /\ obj'[p].crit = obj[p].crit
                         /\ obj'[p].exit = obj[p].exit
                         /\ p # o => obj'[p].free = obj[p].free
      /\ search'[o].at = "none" <=> obj'[o].free
      /\ ~obj'[o].free => obj'[o].live
  <2>1. CASE ~SearchThreadEnds(o)
      BY <1>1, <2>1, SearchFrame DEF LiveInv, ObjInv
  <2>2. CASE SearchThreadEnds(o)
    <3>1. search'[o].at = "none" /\ obj' = [obj EXCEPT ![o].free = TRUE] /\ obj \in [Objs -> ObjStates]
        BY <2>2, SearchFrame DEF Types1, FolderTypes
    <3>2. /\ obj'[o].free /\ obj'[o].live = obj[o].live /\ obj'[o].crit = obj[o].crit
          /\ obj'[o].exit = obj[o].exit /\ \A p \in Objs : p # o => obj'[p] = obj[p]
        BY <3>1 DEF ObjStates
    <3> QED BY <3>1, <3>2
  <2> QED BY <2>1, <2>2
<1>3. ObjInv'
    BY <1>1, <1>2 DEF LiveInv, ObjInv, Types1, FolderTypes
<1>4. CallInv'
    BY <1>1, <1>2 DEF LiveInv, CallInv
<1>5. DownInv'
    BY <1>1, <1>2 DEF LiveInv, DownInv
<1> QED BY <1>3, <1>4, <1>5 DEF LiveInv

\* Changes, their notification and the thread of the queue.
LEMMA LiveAfterStore ==
    ASSUME Types1, LiveInv, Change \/ \E w \in Writers : Notify(w)
    PROVE  LiveInv'
<1>1. UNCHANGED <<folder, proc, up>>
    BY ChangeStores
       DEF Types1, Stores, Store, Notify, AddNotification, UpdateSearchFolders
<1>2. up
    BY ChangeStores DEF Types1, Stores, Store, Notify, AddNotification, UpdateSearchFolders,
                        LiveInv, DownInv
<1> QED BY <1>1, <1>2 DEF LiveInv, ObjInv, CallInv, DownInv, folder

\* An update of the results has its folder and an attempt left.
LEMMA LiveAfterProcess ==
    ASSUME Types1, LiveInv, Process
    PROVE  LiveInv'
<1>1. UNCHANGED <<map, obj, search, client, up, writer>>
    BY DEF Process, FlushEvents, NextGroup, FlushDone, ProcessMessageChange, UpdateFails, folder, store
<1>2. up
    BY DEF Process, FlushEvents, NextGroup, FlushDone, ProcessMessageChange, UpdateFails,
           LiveInv, DownInv
<1>3. /\ proc'.at = "update" => map # None /\ proc'.tries # 0
      /\ proc'.at = "idle" => DOMAIN proc'.batch = {}
  <2>1. CASE FlushEvents
      BY <2>1 DEF FlushEvents, Types1, QueueTypes
  <2>2. CASE NextGroup
    <3>1. PICK i \in DOMAIN proc.batch : Grouped(i)
        BY <2>2, GroupKeepsTypes
    <3>2. /\ proc'.at = (IF map = None THEN "next" ELSE "update") /\ proc'.tries = Attempts
        BY <3>1 DEF Grouped
    <3> QED BY <3>2, Numbers
  <2>3. CASE FlushDone
      BY <2>3, NoEventsBatch DEF FlushDone, NoFlush
  <2>4. CASE ProcessMessageChange
      BY <2>4 DEF ProcessMessageChange, Types1, QueueTypes
  <2>5. CASE UpdateFails
    <3>1. /\ proc.at = "update" /\ proc'.tries = proc.tries - 1
          /\ proc'.at = (IF proc.tries = 1 THEN "next" ELSE "update")
        BY <2>5 DEF UpdateFails, Types1, QueueTypes
    <3>2. proc.tries \in Nat
        BY DEF Types1, QueueTypes
    <3> QED BY <3>1, <3>2 DEF LiveInv, ObjInv
  <2> QED BY <2>1, <2>2, <2>3, <2>4, <2>5 DEF Process
<1> QED BY <1>1, <1>2, <1>3 DEF LiveInv, ObjInv, CallInv, DownInv

\* What is under way ends with the server, and a loaded object has its thread.
LEMMA LiveAfterServer ==
    ASSUME Types1, LiveInv, Killed \/ LoadSearchFolders
    PROVE  LiveInv'
<1>1. CASE Killed
  <2>1. DownInv'
      BY <1>1, NoEventsBatch DEF Killed, DownInv, NoFlush, NoObj, NoCall
  <2>2. CallInv'
      BY <1>1 DEF Killed, CallInv, NoCall
  <2>3. ObjInv'
      BY <1>1 DEF Killed, ObjInv, NoFlush, NoObj, NoSearch
  <2> QED BY <2>1, <2>2, <2>3 DEF LiveInv
<1>2. CASE LoadSearchFolders
  <2>1. /\ ~up /\ up' = TRUE /\ UNCHANGED <<writer, client, queue, proc>>
        /\ \A c \in Clients : client[c].at = "idle"
        /\ proc.at = "idle" /\ DOMAIN proc.batch = {} /\ map = None
      BY <1>2 DEF LoadSearchFolders, store, LiveInv, DownInv
  <2>2. CallInv' /\ DownInv'
      BY <2>1 DEF LiveInv, CallInv, DownInv
  <2>3. CASE UNCHANGED <<map, obj, search>>
      BY <2>1, <2>2, <2>3 DEF LiveInv, ObjInv
  <2>4. CASE ~UNCHANGED <<map, obj, search>>
    <3>1. PICK o \in Objs, free \in BOOLEAN, at \in {"none", "reset"} :
              /\ map' = o /\ free = (at = "none") /\ saved # None
              /\ obj' = [obj EXCEPT ![o] = [live |-> TRUE, crit |-> saved, exit |-> FALSE,
                                            free |-> free]]
              /\ search' = [search EXCEPT ![o].at = at]
        BY <1>2, <2>4 DEF LoadSearchFolders, SearchAt
    <3>2. search'[o].at = at /\ \A p \in Objs : p # o => search'[p] = search[p]
        BY <3>1, SetAt DEF Types1, FolderTypes
    <3>3. saved \in Criteria
        BY <3>1 DEF Types1, PropTypes
    <3>4. /\ obj'[o].live /\ obj'[o].crit = saved /\ ~obj'[o].exit /\ obj'[o].free = free
          /\ \A p \in Objs : p # o => obj'[p] = obj[p]
        BY <3>1 DEF Types1, FolderTypes
    <3>5. \A p \in Objs :
              /\ obj'[p].live => obj'[p].crit \in Criteria
              /\ search'[p].at = "none" <=> obj'[p].free
              /\ ~obj'[p].free => obj'[p].live
        BY <3>1, <3>2, <3>3, <3>4 DEF LiveInv, ObjInv
    <3>6. ObjInv'
      <4>1. obj'[map'].live /\ ~obj'[map'].exit /\ proc'.at # "update"
          BY <2>1, <3>1, <3>4
      <4> QED BY <3>5, <4>1 DEF ObjInv
    <3> QED BY <2>2, <3>6 DEF LiveInv
  <2> QED BY <2>3, <2>4
<1> QED BY <1>1, <1>2

\* A call: the objects, the map and the state of the call itself.
LEMMA LiveAfterCall ==
    ASSUME Types1, LiveInv, NEW c \in Clients,
           Call(c) \/ CancelSearchFolder(c) \/ AddSearchFolder(c) \/ CallStep(c)
    PROVE  LiveInv'
<1>1. UNCHANGED <<writer, queue, proc, up>>
    BY DEF Call, CancelSearchFolder, AddSearchFolder, CallStep, DestroySearchFolder, SetStopped,
           SetRebuild, ResetResults, SaveSearchCriteria, DeleteFolder, store
<1>2. up
    BY DEF Call, CancelSearchFolder, AddSearchFolder, CallStep, DestroySearchFolder, SetStopped,
           SetRebuild, ResetResults, SaveSearchCriteria, DeleteFolder, LiveInv, DownInv
<1>3. DownInv'
    BY <1>1, <1>2 DEF LiveInv, DownInv
<1>4. AfterCancel(c) \in {"rebuild", "reset", "idle"} /\ (AfterCancel(c) = "rebuild" => client[c].op = "set")
    BY DEF AfterCancel
<1>5. CASE Call(c)
  <2>1. /\ client'[c].at = "cancel" /\ (client'[c].op = "set" => client'[c].crit \in Criteria)
        /\ \A d \in Clients : d # c => client'[d] = client[d]
      BY <1>5 DEF Call, Types1, FolderTypes
  <2>2. UNCHANGED <<map, obj, search>>
      BY <1>5 DEF Call
  <2> QED BY <1>1, <1>3, <2>1, <2>2 DEF LiveInv, CallInv, ObjInv
<1>6. CASE UNCHANGED <<map, obj, search>> /\
           \E at \in CallPlaces : /\ Becomes(c, at) /\ at # "wait"
                                  /\ at \in {"rebuild", "insert", "save"} => client[c].op = "set"
  <2>1. PICK at \in CallPlaces : /\ Becomes(c, at) /\ at # "wait"
                                 /\ at \in {"rebuild", "insert", "save"} => client[c].op = "set"
      BY <1>6
  <2>2. /\ client'[c].at = at /\ (client'[c].op = "set" => client[c].op = "set" /\ client'[c].crit = client[c].crit)
        /\ at # "idle" => client'[c].op = client[c].op
        /\ \A d \in Clients : d # c => client'[d] = client[d]
      BY <2>1, BecomesCall DEF Types1, NoCall
  <2> QED BY <1>1, <1>3, <1>6, <2>1, <2>2 DEF LiveInv, CallInv, ObjInv
<1>7. CASE CancelSearchFolder(c)
  <2>1. CASE map = None
      BY <1>4, <1>6, <1>7, <2>1 DEF CancelSearchFolder, CallPlaces
  <2>2. CASE map # None
    <3>1. /\ map \in Objs /\ client' = [client EXCEPT ![c] = [@ EXCEPT !.at = "wait", !.o = map]]
          /\ obj' = [obj EXCEPT ![map].exit = TRUE] /\ map' = None /\ search' = search /\ proc.at # "update"
        BY <1>7, <2>2 DEF CancelSearchFolder, Types1, FolderTypes, MapHeld
    <3>2. /\ client'[c].at = "wait" /\ client'[c].o = map /\ client'[c].op = client[c].op
          /\ client'[c].crit = client[c].crit
          /\ \A d \in Clients : d # c => client'[d] = client[d]
      <4>1. client \in [Clients -> CallStates]
          BY DEF Types1, FolderTypes
      <4>2. client' = [client EXCEPT ![c] = [@ EXCEPT !.at = "wait", !.o = map]]
          BY <3>1
      <4> QED BY <4>1, <4>2 DEF CallStates
    <3>3. \A p \in Objs : /\ obj'[p].live = obj[p].live /\ obj'[p].crit = obj[p].crit
                          /\ obj'[p].free = obj[p].free
        BY <3>1, SetExit DEF Types1, FolderTypes
    <3>4. ObjInv'
        BY <1>1, <3>1, <3>3 DEF LiveInv, ObjInv
    <3>5. obj[map].live /\ map # None
        BY <2>2 DEF LiveInv, ObjInv
    <3>6. \A d \in Clients : client[d].at = "wait" => client[d].o \in Objs /\ client[d].o # map
        BY DEF LiveInv, CallInv
    <3>7. CallInv'
        BY <3>1, <3>2, <3>3, <3>5, <3>6, NoneAssumption DEF LiveInv, CallInv
    <3> QED BY <1>3, <3>4, <3>7 DEF LiveInv
  <2> QED BY <2>1, <2>2
<1>8. CASE AddSearchFolder(c)
  <2>1. PICK o \in Objs, spawned \in BOOLEAN :
          /\ ~obj[o].live /\ search[o].at = "none"
          /\ obj' = [obj EXCEPT ![o] = [live |-> TRUE, crit |-> client[c].crit, exit |-> FALSE,
                                        free |-> FALSE]]
          /\ map' = IF map = None THEN o ELSE map
          /\ SearchAt(o, IF spawned THEN "reset" ELSE "never")
          /\ Becomes(c, IF spawned THEN "save" ELSE "idle")
      BY <1>8 DEF AddSearchFolder
  <2>2. client[c].at = "insert" /\ client[c].op = "set" /\ client[c].crit \in Criteria
      BY <1>8 DEF AddSearchFolder, LiveInv, CallInv
  <2>3. /\ client'[c].at \in {"save", "idle"}
        /\ client'[c].op = "set" => client'[c].crit = client[c].crit
        /\ client'[c].at = "save" => client'[c].op = "set"
        /\ \A d \in Clients : d # c => client'[d] = client[d]
      BY <2>1, <2>2, BecomesCall DEF Types1, NoCall, CallPlaces
  <2>4. /\ search'[o].at # "none" /\ \A p \in Objs : p # o => search'[p] = search[p]
      BY <2>1, SetAt DEF Types1, FolderTypes, SearchAt
  <2>5. /\ obj'[o].live /\ obj'[o].crit = client[c].crit /\ ~obj'[o].exit /\ ~obj'[o].free
        /\ \A p \in Objs : p # o => obj'[p] = obj[p]
      BY <2>1 DEF Types1, FolderTypes
  <2>6. \A p \in Objs : /\ obj'[p].live => obj'[p].crit \in Criteria
                        /\ search'[p].at = "none" <=> obj'[p].free
                        /\ ~obj'[p].free => obj'[p].live
      BY <2>2, <2>4, <2>5 DEF LiveInv, ObjInv
  <2>7. /\ map' # None /\ obj'[map'].live /\ ~obj'[map'].exit
        /\ map' = o \/ map' = map
      BY <2>1, <2>5, NoneAssumption DEF LiveInv, ObjInv, Types1, FolderTypes
  <2>8. ObjInv'
      BY <1>1, <2>6, <2>7 DEF LiveInv, ObjInv
  <2>9. \A d \in Clients : client[d].at = "wait" =>
            client[d].o \in Objs /\ client[d].o # o /\ client[d].o # map' /\ obj'[client[d].o].live
      BY <2>1, <2>5, <2>7 DEF LiveInv, CallInv
  <2>10. CallInv'
      BY <2>2, <2>3, <2>9 DEF LiveInv, CallInv
  <2> QED BY <1>3, <2>8, <2>10 DEF LiveInv
<1>9. CASE DestroySearchFolder(c)
  <2> DEFINE o == client[c].o
  <2>1. client[c].at = "wait" /\ obj[o].free /\ o \in Objs /\ o # map /\ UNCHANGED <<map, search>>
      BY <1>9 DEF DestroySearchFolder, LiveInv, CallInv
  <2>2. /\ client'[c].at = "stopped" /\ client'[c].op = client[c].op /\ client'[c].crit = client[c].crit
        /\ \A d \in Clients : d # c => client'[d] = client[d]
      BY <1>9, BecomesCall DEF DestroySearchFolder, Types1, CallPlaces
  <2>3. /\ ~obj'[o].live /\ obj'[o].free
        /\ \A p \in Objs : p # o => obj'[p] = obj[p]
      BY <1>9, <2>1 DEF DestroySearchFolder, Types1, FolderTypes, NoObj
  <2>4. ObjInv'
      BY <1>1, <2>1, <2>3 DEF LiveInv, ObjInv, Types1, FolderTypes
  <2>5. \A d \in Clients : d # c /\ client[d].at = "wait" => client[d].o \in Objs /\ client[d].o # o
      BY <2>1 DEF LiveInv, CallInv
  <2>6. CallInv'
      BY <2>1, <2>2, <2>3, <2>5 DEF LiveInv, CallInv
  <2> QED BY <1>3, <2>4, <2>6 DEF LiveInv
<1>10. CASE SetStopped(c) \/ SetRebuild(c) \/ ResetResults(c) \/ SaveSearchCriteria(c) \/ DeleteFolder(c)
    BY <1>4, <1>6, <1>10 DEF SetStopped, SetRebuild, ResetResults, SaveSearchCriteria, DeleteFolder, CallPlaces
<1> QED BY <1>5, <1>7, <1>8, <1>9, <1>10 DEF CallStep

-------------------------------------------------------------------------------
(* For any number of clients and writers.                                  *)

BaseInv == Types1 /\ CountInv /\ KnownInv /\ LiveInv

\* The invariant holds at first,
LEMMA BaseInit == Init => BaseInv
<1> SUFFICES ASSUME Init PROVE BaseInv
    OBVIOUS
<1>1. StoreTypes
  <2>1. msgs \in [Msgs -> Message \cup {None}]
      BY DEF Init
  <2> QED BY <2>1, Numbers DEF Init, StoreTypes
<1>2. FolderTypes
    BY DEF Init, FolderTypes, NoObj, NoSearch, NoCall, ObjStates, SearchStates, CallStates, CallPlaces
<1>3. QueueTypes
  <2>1. NoFlush \in [at : {"idle", "next", "update"}, batch : Batches, group : SUBSET Msgs,
                     type : Types, folder : Folders \cup {0}, tries : 0 .. Attempts]
      BY NoEventsBatch, Numbers DEF NoFlush, Types
  <2> QED BY <2>1, Numbers DEF Init, QueueTypes
<1>4. ResultTypes /\ PropTypes
    BY DEF Init, ResultTypes, PropTypes, Rows
<1>5. CountInv
  <2>1. Shown(results) = {} /\ Unread(results) = {}
      BY DEF Init, Shown, Unread
  <2> QED BY <2>1, FS_EmptySet DEF Init, CountInv, Matching
<1>6. KnownInv
    BY NoEventsBatch DEF Init, KnownInv, NoFlush, NoSearch
<1>7. LiveInv
    BY NoEventsBatch DEF Init, LiveInv, ObjInv, CallInv, DownInv, NoFlush, NoObj, NoSearch, NoCall
<1> QED BY <1>1, <1>2, <1>3, <1>4, <1>5, <1>6, <1>7 DEF BaseInv, Types1

\* and every step keeps it.
LEMMA BaseStep == BaseInv /\ [Next]_vars => BaseInv'
<1> SUFFICES ASSUME BaseInv, [Next]_vars PROVE BaseInv'
    OBVIOUS
<1>0. Types1 /\ CountInv /\ KnownInv /\ LiveInv
    BY DEF BaseInv
<1>1. CASE Change
  <2>1. Types1'
      BY <1>0, <1>1, ChangeStores, StoreKeepsTypes DEF Stores, Types1
  <2> QED BY <1>0, <1>1, <2>1, KnownAfterChange, LiveAfterStore, CountsStay DEF BaseInv
<1>2. ASSUME NEW w \in Writers, Notify(w)
      PROVE  BaseInv'
  <2>1. Types1'
      BY <1>0, <1>2, NotifyKeepsTypes DEF KnownInv, Known
  <2> QED BY <1>0, <1>2, <2>1, KnownAfterNotify, LiveAfterStore, CountsStay DEF BaseInv
<1>3. CASE Process
  <2>1. Types1'
    <3>1. proc.at = "update" => proc.tries # 0 /\ \A m \in proc.group : Known(m)
        BY <1>0 DEF LiveInv, ObjInv, KnownInv
    <3>2. ProcessMessageChange => proc.at = "update"
        BY DEF ProcessMessageChange
    <3> QED BY <1>0, <1>3, <3>1, <3>2, FlushKeepsTypes, GroupKeepsTypes, ProcessKeepsTypes,
               UpdateKeepsTypes DEF Process
  <2> QED BY <1>0, <1>3, <2>1, KnownAfterProcess, LiveAfterProcess, CountsStay DEF BaseInv
<1>4. ASSUME NEW o \in Objs, Search(o)
      PROVE  BaseInv'
  <2>1. Types1'
    <3>1. /\ search[o].at # "none" => obj[o].crit \in Criteria
          /\ \A m \in search[o].cands : Known(m)
        BY <1>0 DEF LiveInv, ObjInv, KnownInv
    <3> QED BY <1>0, <1>4, <3>1, SearchKeepsTypes
  <2> QED BY <1>0, <1>4, <2>1, KnownAfterSearch, LiveAfterSearch, CountsStay DEF BaseInv
<1>5. ASSUME NEW c \in Clients, Call(c) \/ CancelSearchFolder(c) \/ AddSearchFolder(c) \/ CallStep(c)
      PROVE  BaseInv'
  <2>1. Types1'
      BY <1>0, <1>5, CallKeepsTypes
  <2> QED BY <1>0, <1>5, <2>1, KnownAfterRest, LiveAfterCall, CountsStay DEF BaseInv
<1>6. CASE Killed \/ LoadSearchFolders
  <2>1. Types1'
      BY <1>0, <1>6, ServerKeepsTypes
  <2> QED BY <1>0, <1>6, <2>1, KnownAfterRest, LiveAfterServer, CountsStay DEF BaseInv
<1>7. CASE UNCHANGED vars
    BY <1>0, <1>7 DEF vars, store, rows, props, folder, history, BaseInv, Types1, StoreTypes, ResultTypes,
          PropTypes, FolderTypes, QueueTypes, CountInv, Matching, Shown, Unread, KnownInv, Known,
          LiveInv, ObjInv, CallInv, DownInv
<1> QED BY <1>1, <1>2, <1>3, <1>4, <1>5, <1>6, <1>7 DEF Next

\* The invariant for any number of clients and writers.
THEOREM SearchBase == Spec => []BaseInv
<1> QED BY BaseInit, BaseStep, PTL DEF Spec

\* Every variable has its type, and the queue keeps its bound, for any number of clients and
\* of threads that change messages.
THEOREM SearchTypeCorrect == Spec => []TypeOK
<1>1. BaseInv => TypeOK
    BY CountsAreTyped DEF BaseInv
<1> QED BY <1>1, SearchBase, PTL

\* The counts that ProcessMessageChange and ProcessCandidateRows keep by increments are the
\* numbers of rows, however updates, searches and restarts mix.
THEOREM CountsStayRight == Spec => []CountsMatch
<1>1. BaseInv => CountsMatch
    BY CountsAreTyped DEF BaseInv
<1> QED BY <1>1, SearchBase, PTL

\* Whatever calls overlap: no search thread works on an object that DestroySearchFolder has
\* deleted, and who waits in DestroySearchFolder waits for an object that exists and is the
\* only one who does.
ThreadsHaveObjects ==
    /\ \A o \in Objs : search[o].at # "none" => obj[o].live
    /\ \A c \in Clients : client[c].at = "wait" =>
          /\ obj[client[c].o].live /\ map # client[c].o
          /\ obj[client[c].o].free \/ search[client[c].o].at # "none"
          /\ \A d \in Clients : client[d].at = "wait" /\ client[d].o = client[c].o => d = c

\* ThreadsHaveObjects holds for any number of calls of CancelSearchFolder,
\* DestroySearchFolder and AddSearchFolder at a time.
THEOREM SearchesHaveObjects == Spec => []ThreadsHaveObjects
<1>1. BaseInv => ThreadsHaveObjects
    BY DEF BaseInv, LiveInv, ObjInv, CallInv, ThreadsHaveObjects
<1> QED BY <1>1, SearchBase, PTL

-------------------------------------------------------------------------------
(* With one client at a time.                                              *)

SoleInv == OwnInv /\ HalfBuiltIsRebuilt

\* OwnInv and HalfBuiltIsRebuilt hold at first.
LEMMA SoleInit == Init => SoleInv
BY NoneAssumption DEF Init, SoleInv, OwnInv, HalfBuiltIsRebuilt, NoObj, NoCall, NoSearch

\* A search that ends writes its status only while its object has an owner.
LEMMA SoleAfterSearch ==
    ASSUME OneClient, BaseInv, SoleInv, NEW o \in Objs, Search(o)
    PROVE  SoleInv'
<1>0. Types1 /\ ObjInv /\ CallInv
    BY DEF BaseInv, LiveInv
<1>1. /\ UNCHANGED <<map, client, up, saved, removed>>
      /\ search[o].at # "none" /\ \A p \in Objs : p # o => search'[p] = search[p]
    BY <1>0, SearchFrame
<1>2. \A p \in Objs : obj'[p].live = obj[p].live
  <2>1. CASE ~SearchThreadEnds(o)
      BY <1>0, <2>1, SearchFrame
  <2>2. CASE SearchThreadEnds(o)
    <3>1. obj' = [obj EXCEPT ![o].free = TRUE] /\ obj \in [Objs -> ObjStates]
        BY <1>0, <2>2, SearchFrame DEF Types1, FolderTypes
    <3> QED BY <3>1 DEF ObjStates
  <2> QED BY <2>1, <2>2
<1>3. obj[o].live
    BY <1>0, <1>1 DEF ObjInv
<1>4. map = o \/ (map = None /\ \E c \in Clients : client[c].at = "wait")
    BY <1>3 DEF SoleInv, OwnInv
<1>5. CASE SetRunning(o)
  <2>1. search'[o].at = "end" /\ status' = "running"
      BY <1>0, <1>5, SetAt DEF SetRunning, SearchAt, Types1, FolderTypes
  <2>2. HalfBuiltIsRebuilt'
      BY <1>1, <1>4, <2>1, NoneAssumption DEF HalfBuiltIsRebuilt
  <2>3. \A c \in Clients : client[c].at \notin {"reset", "insert"}
    <3>1. CASE map = o
        BY <3>1, NoneAssumption DEF SoleInv, OwnInv
    <3>2. CASE map = None
        BY <1>4, <3>2, NoneAssumption DEF OneClient
    <3> QED BY <1>4, <3>1, <3>2
  <2>4. OwnInv'
      BY <1>1, <1>2, <1>4, <2>1, <2>3, NoneAssumption DEF SoleInv, OwnInv
  <2> QED BY <2>2, <2>4 DEF SoleInv
<1>6. CASE ~SetRunning(o)
  <2>1. status' = status
      BY <1>6 DEF Search, SearchReset, SearchFails, SearchFolder, ProcessCandidateRows, FolderDone,
                  SearchThreadEnds, props
  <2>2. OwnInv'
      BY <1>1, <1>2, <2>1 DEF SoleInv, OwnInv
  <2>3. search'[o].at \notin {"none", "end"} => search[o].at \notin {"none", "end"}
    <3>1. CASE SearchThreadEnds(o)
        BY <1>0, <3>1, SearchFrame
    <3>2. CASE SearchFails(o)
        BY <1>0, <3>2, SetAt DEF SearchFails, SearchAt, Types1, FolderTypes
    <3> QED BY <1>6, <3>1, <3>2 DEF Search, SearchReset, SearchFolder, ProcessCandidateRows, FolderDone
  <2>4. HalfBuiltIsRebuilt'
      BY <1>1, <2>1, <2>3 DEF SoleInv, HalfBuiltIsRebuilt
  <2> QED BY <2>2, <2>4 DEF SoleInv
<1> QED BY <1>5, <1>6

\* The queue has nothing to do with the owner of a search.
LEMMA SoleAfterQueue ==
    ASSUME BaseInv, SoleInv, Change \/ (\E w \in Writers : Notify(w)) \/ Process
    PROVE  SoleInv'
<1>1. UNCHANGED <<folder, props, up>>
  <2>1. CASE Change
      BY <2>1, ChangeStores DEF BaseInv, Types1, Stores, Store
  <2>2. CASE \E w \in Writers : Notify(w)
      BY <2>2 DEF Notify, AddNotification, UpdateSearchFolders
  <2>3. CASE Process
      BY <2>3 DEF Process, FlushEvents, NextGroup, FlushDone, ProcessMessageChange, UpdateFails
  <2> QED BY <2>1, <2>2, <2>3
<1> QED BY <1>1 DEF SoleInv, OwnInv, HalfBuiltIsRebuilt, folder, props

\* What the server loads at its start is on the map.
LEMMA SoleAfterServer ==
    ASSUME BaseInv, SoleInv, Killed \/ LoadSearchFolders
    PROVE  SoleInv'
<1>1. CASE Killed
    BY <1>1, NoneAssumption DEF Killed, SoleInv, OwnInv, HalfBuiltIsRebuilt, NoObj, NoCall
<1>2. CASE LoadSearchFolders
  <2>1. /\ ~up /\ UNCHANGED <<client, status, saved, removed>> /\ \A c \in Clients : client[c].at = "idle"
        /\ \A p \in Objs : ~obj[p].live
        /\ map = None
      BY <1>2 DEF LoadSearchFolders, props, BaseInv, LiveInv, DownInv
  <2>2. CASE UNCHANGED <<map, obj, search>>
    <3>1. status # "running" \/ saved = None \/ removed
        BY <1>2, <2>1, <2>2, NoneAssumption DEF LoadSearchFolders
    <3> QED BY <2>1, <2>2, <3>1, NoneAssumption DEF SoleInv, OwnInv, HalfBuiltIsRebuilt
  <2>3. CASE ~UNCHANGED <<map, obj, search>>
    <3>1. PICK o \in Objs, free \in BOOLEAN, at \in {"none", "reset"} :
              /\ map' = o /\ (at = "reset" => status = "rebuild")
              /\ obj' = [obj EXCEPT ![o] = [live |-> TRUE, crit |-> saved, exit |-> FALSE,
                                            free |-> free]]
              /\ search' = [search EXCEPT ![o].at = at]
        BY <1>2, <2>3 DEF LoadSearchFolders, SearchAt
    <3>2. search'[o].at = at
        BY <3>1, SetAt DEF BaseInv, Types1, FolderTypes
    <3>3. \A p \in Objs : obj'[p].live => p = o
        BY <2>1, <3>1 DEF BaseInv, Types1, FolderTypes
    <3> QED BY <2>1, <3>1, <3>2, <3>3, NoneAssumption DEF SoleInv, OwnInv, HalfBuiltIsRebuilt
  <2> QED BY <2>2, <2>3
<1> QED BY <1>1, <1>2

\* A call takes the object off the map before it deletes it, and puts on it what it adds.
LEMMA SoleAfterCall ==
    ASSUME OneClient, BaseInv, SoleInv, NEW c \in Clients,
           Call(c) \/ CancelSearchFolder(c) \/ AddSearchFolder(c) \/ CallStep(c)
    PROVE  SoleInv'
<1>0. Types1 /\ ObjInv /\ CallInv /\ OwnInv /\ HalfBuiltIsRebuilt /\ \A d \in Clients : d = c
    BY DEF BaseInv, LiveInv, SoleInv, OneClient
<1>1. /\ AfterCancel(c) \in {"rebuild", "reset", "idle"}
      /\ AfterCancel(c) = "rebuild" <=> client[c].op = "set"
    BY DEF AfterCancel
<1>2. UNCHANGED up
    BY DEF Call, CancelSearchFolder, AddSearchFolder, CallStep, DestroySearchFolder, SetStopped,
           SetRebuild, ResetResults, SaveSearchCriteria, DeleteFolder
<1>3. CASE Call(c)
  <2>1. client[c].at = "idle" /\ client'[c].at = "cancel" /\ ~removed
      BY <1>0, <1>3 DEF Call, Types1, FolderTypes
  <2>2. UNCHANGED <<map, obj, search, status, saved, removed>>
      BY <1>3 DEF Call, props
  <2> QED BY <1>0, <1>2, <2>1, <2>2 DEF SoleInv, OwnInv, HalfBuiltIsRebuilt
<1>4. CASE CancelSearchFolder(c)
  <2>0. client[c].at = "cancel" /\ UNCHANGED <<search, status, saved, removed>>
      BY <1>4 DEF CancelSearchFolder, props
  <2>1. CASE map = None
    <3>1. UNCHANGED <<map, obj>> /\ Becomes(c, AfterCancel(c))
        BY <1>4, <2>1 DEF CancelSearchFolder
    <3>2. /\ client'[c].at = AfterCancel(c) /\ (AfterCancel(c) # "idle" => client'[c].op = client[c].op)
        BY <1>0, <1>1, <3>1, BecomesCall DEF Types1, CallPlaces
    <3> QED BY <1>0, <1>1, <1>2, <2>0, <2>1, <3>1, <3>2, NoneAssumption DEF SoleInv, OwnInv, HalfBuiltIsRebuilt
  <2>2. CASE map # None
    <3>1. /\ map \in Objs /\ client' = [client EXCEPT ![c] = [@ EXCEPT !.at = "wait", !.o = map]]
          /\ obj' = [obj EXCEPT ![map].exit = TRUE] /\ map' = None
        BY <1>0, <1>4, <2>2 DEF CancelSearchFolder, Types1, FolderTypes
    <3>2. client'[c].at = "wait" /\ client'[c].o = map
        BY <1>0, <3>1 DEF Types1, FolderTypes, CallStates
    <3>3. \A p \in Objs : obj'[p].live = obj[p].live
        BY <1>0, <3>1 DEF Types1, FolderTypes, ObjStates
    <3>4. map' = None
        BY <3>1
    <3>5. \A p \in Objs : obj[p].live => p = map
        BY <1>0, <2>0 DEF OwnInv
    <3> QED BY <1>0, <1>2, <2>0, <3>2, <3>3, <3>4, <3>5, NoneAssumption DEF SoleInv, OwnInv, HalfBuiltIsRebuilt
  <2> QED BY <2>1, <2>2
<1>5. CASE AddSearchFolder(c)
  <2>1. PICK o \in Objs, spawned \in BOOLEAN :
          /\ obj' = [obj EXCEPT ![o] = [live |-> TRUE, crit |-> client[c].crit, exit |-> FALSE,
                                        free |-> FALSE]]
          /\ map' = IF map = None THEN o ELSE map
          /\ SearchAt(o, IF spawned THEN "reset" ELSE "never")
          /\ Becomes(c, IF spawned THEN "save" ELSE "idle")
      BY <1>5 DEF AddSearchFolder
  <2>2. client[c].at = "insert" /\ client[c].op = "set" /\ UNCHANGED <<status, saved, removed>>
      BY <1>0, <1>5 DEF AddSearchFolder, CallInv, props
  <2>3. map = None /\ status = "rebuild" /\ ~removed /\ map' = o
      BY <1>0, <2>1, <2>2 DEF OwnInv
  <2>4. client'[c].at \in {"save", "idle"}
      BY <1>0, <2>1, BecomesCall DEF Types1, CallPlaces
  <2>5. \A p \in Objs : obj'[p].live => p = o
    <3>1. \A p \in Objs : ~obj[p].live
        BY <1>0, <2>2, <2>3, NoneAssumption DEF OwnInv
    <3> QED BY <1>0, <2>1, <3>1 DEF Types1, FolderTypes
  <2> QED BY <1>0, <2>2, <2>3, <2>4, <2>5, NoneAssumption DEF SoleInv, OwnInv, HalfBuiltIsRebuilt
<1>6. CASE DestroySearchFolder(c)
  <2>1. /\ client[c].at = "wait" /\ client[c].o \in Objs
        /\ UNCHANGED <<map, search, status, saved, removed>>
      BY <1>0, <1>6 DEF DestroySearchFolder, CallInv, props
  <2>2. client'[c].at = "stopped" /\ client'[c].op = client[c].op
      BY <1>0, <1>6, BecomesCall DEF DestroySearchFolder, Types1, CallPlaces
  <2>3. map = None /\ \A p \in Objs : obj[p].live => p = client[c].o
      BY <1>0, <2>1, NoneAssumption DEF OwnInv
  <2>4. \A p \in Objs : ~obj'[p].live
      BY <1>0, <1>6, <2>1, <2>3 DEF DestroySearchFolder, Types1, FolderTypes, NoObj
  <2> QED BY <1>0, <1>2, <2>1, <2>2, <2>3, <2>4, NoneAssumption DEF SoleInv, OwnInv, HalfBuiltIsRebuilt
<1>7. CASE SetStopped(c) \/ SetRebuild(c) \/ ResetResults(c) \/ SaveSearchCriteria(c) \/ DeleteFolder(c)
  <2>0. UNCHANGED <<map, obj, search>>
      BY <1>7 DEF SetStopped, SetRebuild, ResetResults, SaveSearchCriteria, DeleteFolder
  <2>1. CASE SetStopped(c)
    <3>1. client[c].at = "stopped" /\ status' = "stopped" /\ UNCHANGED <<saved, removed>>
        BY <2>1 DEF SetStopped
    <3>2. /\ client'[c].at = AfterCancel(c) /\ (AfterCancel(c) # "idle" => client'[c].op = client[c].op)
        BY <1>0, <1>1, <2>1, BecomesCall DEF SetStopped, Types1, CallPlaces
    <3> QED BY <1>0, <1>1, <1>2, <2>0, <3>1, <3>2, NoneAssumption DEF SoleInv, OwnInv, HalfBuiltIsRebuilt
  <2>2. CASE SetRebuild(c)
    <3>1. client[c].at = "rebuild" /\ status' = "rebuild" /\ UNCHANGED <<saved, removed>>
        BY <2>2 DEF SetRebuild
    <3>2. client'[c].at = "reset"
        BY <1>0, <2>2, BecomesCall DEF SetRebuild, Types1, CallPlaces
    <3> QED BY <1>0, <1>2, <2>0, <3>1, <3>2, NoneAssumption DEF SoleInv, OwnInv, HalfBuiltIsRebuilt
  <2>3. CASE ResetResults(c)
    <3>1. client[c].at = "reset" /\ UNCHANGED <<status, saved, removed>>
        BY <2>3 DEF ResetResults, props
    <3>2. /\ client'[c].at \in {"insert", "delete", "idle"}
          /\ client'[c].at = "insert" => client[c].op = "set"
        BY <1>0, <2>3, BecomesCall DEF ResetResults, Types1, CallPlaces
    <3> QED BY <1>0, <1>2, <2>0, <3>1, <3>2, NoneAssumption DEF SoleInv, OwnInv, HalfBuiltIsRebuilt
  <2>4. CASE SaveSearchCriteria(c)
    <3>1. client[c].at = "save" /\ UNCHANGED <<status, removed>>
        BY <2>4 DEF SaveSearchCriteria
    <3>2. client'[c].at = "idle"
        BY <1>0, <2>4, BecomesCall DEF SaveSearchCriteria, Types1, CallPlaces
    <3> QED BY <1>0, <1>2, <2>0, <3>1, <3>2, NoneAssumption DEF SoleInv, OwnInv, HalfBuiltIsRebuilt
  <2>5. CASE DeleteFolder(c)
    <3>1. client[c].at = "delete" /\ UNCHANGED <<status, saved>>
        BY <2>5 DEF DeleteFolder
    <3>2. client'[c].at = "idle"
        BY <1>0, <2>5, BecomesCall DEF DeleteFolder, Types1, CallPlaces
    <3>3. map = None /\ ~removed
        BY <1>0, <3>1 DEF OwnInv
    <3> QED BY <1>0, <1>2, <2>0, <3>1, <3>2, <3>3, NoneAssumption DEF SoleInv, OwnInv, HalfBuiltIsRebuilt
  <2> QED BY <1>7, <2>1, <2>2, <2>3, <2>4, <2>5
<1> QED BY <1>3, <1>4, <1>5, <1>6, <1>7 DEF CallStep

\* Every step keeps both, if there is one client.
LEMMA SoleStep ==
    ASSUME OneClient
    PROVE  BaseInv /\ SoleInv /\ [Next]_vars => SoleInv'
<1> SUFFICES ASSUME BaseInv, SoleInv, [Next]_vars PROVE SoleInv'
    OBVIOUS
<1>1. CASE UNCHANGED vars
    BY <1>1 DEF vars, props, folder, SoleInv, OwnInv, HalfBuiltIsRebuilt
<1> QED BY <1>1, SoleAfterSearch, SoleAfterQueue, SoleAfterServer, SoleAfterCall DEF Next

\* A search thread works on the object that is on the map, or that the call has taken off it
\* which waits for the thread, if the calls of a folder come one after another.
THEOREM SearchesAreOwned ==
    ASSUME OneClient
    PROVE  Spec => []SearchIsOwned
<1>1. BaseInv /\ SoleInv => SearchIsOwned
    BY DEF BaseInv, LiveInv, ObjInv, CallInv, SoleInv, OwnInv, SearchIsOwned
<1> QED BY <1>1, SoleInit, SoleStep, SearchBase, PTL DEF Spec

\* The folder on the map whose search is under way is searched again at the next start, if
\* the calls of a folder come one after another.
THEOREM HalfBuiltComesBack ==
    ASSUME OneClient
    PROVE  Spec => []HalfBuiltIsRebuilt
<1>1. SoleInv => HalfBuiltIsRebuilt
    BY DEF SoleInv
<1> QED BY <1>1, SoleInit, SoleStep, SearchBase, PTL DEF Spec

-------------------------------------------------------------------------------
(* The order of the changes of a message.                                  *)

\* Every set of numbers has a smallest, and a bounded one a largest member.
LEMMA Smallest ==
    ASSUME NEW S \in SUBSET Nat, S # {}
    PROVE  \E n \in S : \A k \in S : n <= k
<1> DEFINE R == {ss \in Nat \X Nat : ss[1] < ss[2]}
<1>1. IsWellFoundedOn(R, Nat)
    BY NatLessThanWellFounded DEF OpToRel
<1> HIDE DEF R
<1>2. PICK x \in S : \A y \in S : ~(<<y, x>> \in R)
    BY <1>1, WFMin
<1>3. \A y \in S : y < x => <<y, x>> \in R
    BY DEF R
<1>4. ASSUME NEW y \in S
      PROVE  x <= y
  <2>1. ~(y < x)
      BY <1>2, <1>3, Zenon
  <2> QED BY <2>1
<1> QED BY <1>4

\* Used for the last change of a message in a batch.
LEMMA Largest ==
    ASSUME NEW N \in Nat, NEW S \in SUBSET (1 .. N), S # {}
    PROVE  \E n \in S : \A k \in S : k <= n
<1> DEFINE T == {t \in Nat : \E k \in S : t = N - k}
<1>1. T \in SUBSET Nat
    OBVIOUS
<1>2. \A k \in S : N - k \in T
    OBVIOUS
<1>3. PICK t \in T : \A u \in T : t <= u
    BY <1>1, <1>2, Smallest
<1>4. PICK n \in S : t = N - n
    OBVIOUS
<1>5. \A k \in S : N - n <= N - k
    BY <1>2, <1>3, <1>4
<1>6. \A k \in S : k <= n
    BY <1>5
<1> QED BY <1>6
\* The sort keeps the changes of a message in order.
LEMMA OrderStays ==
    ASSUME BaseInv, BatchOrdered, [Next]_vars
    PROVE  BatchOrdered'
<1>0. Types1 /\ DownInv /\ KnownInv
    BY DEF BaseInv, LiveInv
<1>1. CASE UNCHANGED <<proc, strayed>>
    BY <1>1 DEF BatchOrdered
<1>2. CASE proc'.batch = proc.batch /\ strayed' = strayed
    BY <1>2 DEF BatchOrdered
<1>3. CASE DOMAIN proc'.batch = {}
    BY <1>3 DEF BatchOrdered
<1>4. CASE Process
  <2>1. CASE FlushEvents
    <3>1. PICK n \in 1 .. BatchSize : Flushed(n)
        BY <1>0, <2>1, FlushKeepsTypes
    <3>2. proc'.batch = [i \in 1 .. n |-> queue[i]] /\ strayed' = strayed \cup OutOfOrder(proc'.batch)
        BY <1>0, <3>1 DEF Types1, QueueTypes, Flushed
    <3>3. proc'.batch \in Batches
        BY <1>0, <2>1, FlushKeepsTypes DEF Types1, QueueTypes
    <3>4. ASSUME NEW m \in Msgs, m \notin OutOfOrder(proc'.batch),
                 NEW i \in DOMAIN proc'.batch, NEW j \in DOMAIN proc'.batch,
                 i < j, proc'.batch[i].m = m, proc'.batch[j].m = m
          PROVE  proc'.batch[i].folder <= proc'.batch[j].folder
      <4>1. ~(proc'.batch[j].folder < proc'.batch[i].folder)
          BY <3>4 DEF OutOfOrder
      <4>2. proc'.batch[i].folder \in Nat /\ proc'.batch[j].folder \in Nat
          BY <3>3, BatchEvents, FoldersAssumption
      <4> QED BY <4>1, <4>2
    <3> QED BY <3>2, <3>4 DEF BatchOrdered
  <2>2. CASE NextGroup
    <3>1. PICK i \in DOMAIN proc.batch : Grouped(i)
        BY <1>0, <2>2, GroupKeepsTypes
    <3>2. proc'.batch = [j \in DOMAIN proc.batch \ Run(i) |-> proc.batch[j]]
        BY <3>1 DEF Grouped
    <3>3. strayed' = strayed
        BY <2>2 DEF NextGroup, history
    <3> QED BY <3>2, <3>3 DEF BatchOrdered
  <2>3. CASE FlushDone
      BY <1>3, <2>3, NoEventsBatch DEF FlushDone, NoFlush
  <2>4. CASE ProcessMessageChange \/ UpdateFails
      BY <1>0, <1>2, <2>4 DEF ProcessMessageChange, UpdateFails, Types1, QueueTypes, history
  <2> QED BY <1>4, <2>1, <2>2, <2>3, <2>4 DEF Process
<1>5. ASSUME NEW o \in Objs, Search(o)
      PROVE  BatchOrdered'
  <2>1. CASE SearchReset(o)
    <3>1. CASE proc.at = "idle"
        BY <1>0, <1>3, <2>1, <3>1 DEF SearchReset, DownInv
    <3>2. CASE proc.at # "idle"
        BY <1>1, <2>1, <3>2 DEF SearchReset
    <3> QED BY <3>1, <3>2
  <2>2. CASE ~SearchReset(o)
      BY <1>1, <1>5, <2>2 DEF Search, SearchFails, SearchFolder, ProcessCandidateRows, FolderDone,
                  SetRunning, SearchThreadEnds, history
  <2> QED BY <2>1, <2>2
<1>6. CASE Change
    BY <1>0, <1>1, <1>6, ChangeStores DEF Types1, Stores, Store
<1>7. CASE \E w \in Writers : Notify(w)
    BY <1>1, <1>7 DEF Notify, AddNotification, UpdateSearchFolders, history
<1>8. CASE \E c \in Clients : Call(c) \/ CancelSearchFolder(c) \/ AddSearchFolder(c) \/ CallStep(c)
    BY <1>1, <1>8 DEF Call, CancelSearchFolder, AddSearchFolder, CallStep, DestroySearchFolder, SetStopped,
           SetRebuild, ResetResults, SaveSearchCriteria, DeleteFolder, history
<1>9. CASE Killed
    BY <1>3, <1>9, NoEventsBatch DEF Killed, NoFlush
<1>10. CASE LoadSearchFolders
    BY <1>1, <1>10 DEF LoadSearchFolders, history
<1>11. CASE UNCHANGED vars
    BY <1>1, <1>11 DEF vars, history
<1> QED BY <1>4, <1>5, <1>6, <1>7, <1>8, <1>9, <1>10, <1>11 DEF Next

\* A change fits as long as the row of the message is as it was, gone or right.
LEMMA FitsStays ==
    ASSUME NEW n, NEW r, NEW s \in {r, "none", RowFor(n)}, NEW type, NEW f, Fits(n, r, type, f)
    PROVE  Fits(n, s, type, f)
BY DEF Fits

\* The changes of m are where they were; the update of the results may be over.
SameChanges(m) ==
    /\ msgs'[m] = msgs[m] /\ UNCHANGED <<writer, queue>>
    /\ m \in strayed => m \in strayed'
    /\ proc'.batch = proc.batch
    /\ proc'.at = "update" => /\ proc.at = "update" /\ proc'.group = proc.group
                              /\ proc'.type = proc.type /\ proc'.folder = proc.folder

\* Such a step leaves the last change of m fitting.
LEMMA LastFrame ==
    ASSUME NEW m \in Msgs, LastFits(m), SameChanges(m),
           results'[m] \in {results[m], "none", RowFor(msgs[m])}
    PROVE  LastFits(m)'
<1>1. Single(m)'
    BY DEF LastFits, Single, InHand, SameChanges
<1>2. ASSUME NEW type, NEW f, Fits(msgs[m], results[m], type, f)
      PROVE  Fits(msgs'[m], results'[m], type, f)
    BY <1>2, FitsStays DEF SameChanges
<1>3. /\ Told(m)' <=> Told(m)
      /\ Queued(m)' <=> Queued(m)
      /\ Batched(m)' <=> Batched(m)
    BY DEF SameChanges, Told, InHand, Queued, Batched
<1> SUFFICES ASSUME Living(m)' PROVE HandFits(m)' /\ QueueFits(m)' /\ BatchFits(m)'
    BY <1>1 DEF LastFits
<1>4. HandFits(m) /\ QueueFits(m) /\ BatchFits(m)
    BY DEF LastFits, Living, SameChanges
<1>5. HandFits(m)'
    BY <1>2, <1>4 DEF HandFits, InHand, SameChanges
<1>6. QueueFits(m)'
    BY <1>2, <1>3, <1>4 DEF QueueFits, LastQueued, SameChanges
<1>7. BatchFits(m)'
    BY <1>2, <1>3, <1>4 DEF BatchFits, LastBatched, SameChanges
<1> QED BY <1>5, <1>6, <1>7

\* The change that a writer has just made fits.
LEMMA LastAfterChange ==
    ASSUME BaseInv, LastInv, Change
    PROVE  LastInv'
<1>0. Types1 /\ KnownInv
    BY DEF BaseInv
<1>1. PICK w \in Writers, m \in Msgs, new \in Message, type \in Types : Stores(w, m, new, type)
    BY <1>0, ChangeStores DEF Types1
<1>2. /\ msgs'[m] = new /\ \A n \in Msgs : n # m => msgs'[n] = msgs[n]
      /\ writer[w] = None /\ writer'[w] # None /\ writer'[w].e.m = m /\ writer'[w].e.type = type
      /\ ~writer'[w].ready
      /\ \A v \in Writers : v # w => writer'[v] = writer[v]
      /\ UNCHANGED <<queue, proc, results, strayed>>
      /\ crossed' = crossed \cup {n \in {m} : \E v \in Writers : InHand(v, n)}
  <2> DEFINE r == [e |-> [type |-> type, m |-> m, folder |-> new.folder], ready |-> FALSE]
  <2>1. /\ msgs' = [msgs EXCEPT ![m] = new] /\ writer' = [writer EXCEPT ![w] = r] /\ writer[w] = None
        /\ UNCHANGED <<queue, proc, results, strayed>>
        /\ crossed' = crossed \cup {n \in {m} : \E v \in Writers : InHand(v, n)}
      BY <1>1 DEF Stores, Store, rows
  <2>2. r \in [e : Event, ready : BOOLEAN]
      BY DEF Event, Message
  <2>3. r # None /\ r.e.m = m /\ r.e.type = type /\ ~r.ready
      BY <2>2, NoneAssumption
  <2> HIDE DEF r
  <2> QED BY <1>0, <2>1, <2>3 DEF Types1, StoreTypes
<1> SUFFICES ASSUME NEW n \in Msgs, n \notin crossed' PROVE LastFits(n)'
    BY DEF LastInv
<1>3. LastFits(n)
    BY <1>2 DEF LastInv
<1>4. CASE n # m
  <2>1. \A v \in Writers : (InHand(v, n)' <=> InHand(v, n)) /\ (InHand(v, n) => writer'[v] = writer[v])
      BY <1>2, <1>4 DEF InHand
  <2>2. msgs'[n] = msgs[n] /\ results'[n] = results[n]
      BY <1>2, <1>4
  <2>3. (Told(n)' <=> Told(n)) /\ (Living(n)' <=> Living(n)) /\ (Single(n)' <=> Single(n))
      BY <2>1, <2>2 DEF Told, Living, Single
  <2>4. HandFits(n) => HandFits(n)'
      BY <2>1, <2>2 DEF HandFits
  <2>5. QueueFits(n) => QueueFits(n)'
      BY <1>2, <2>2, <2>3 DEF QueueFits, LastQueued
  <2>6. BatchFits(n) => BatchFits(n)'
      BY <1>2, <2>2, <2>3 DEF BatchFits, LastBatched, Queued, Batched
  <2> QED BY <1>3, <2>3, <2>4, <2>5, <2>6 DEF LastFits
<1>5. CASE n = m
  <2>1. \A v \in Writers : ~InHand(v, m)
      BY <1>2, <1>5
  <2>2. \A v \in Writers : InHand(v, m)' => v = w
      BY <1>2, <2>1 DEF InHand
  <2>3. Single(m)' /\ ~Told(m)'
      BY <1>2, <2>2 DEF Single, Told, InHand
  <2>4. ASSUME new.live
        PROVE  Fits(new, results[m], type, new.folder)
      BY <1>0, <1>1, <2>4 DEF Stores, Fits, KnownInv, Known
  <2>5. Living(m)' => HandFits(m)'
      BY <1>2, <2>2, <2>4 DEF Living, HandFits, InHand
  <2> QED BY <1>5, <2>3, <2>5 DEF LastFits, QueueFits, BatchFits
<1> QED BY <1>4, <1>5

\* AddNotification brings the folder of the message along.
LEMMA LastAfterAdd ==
    ASSUME BaseInv, LastInv, NEW w \in Writers, AddNotification(w)
    PROVE  LastInv'
<1>0. Types1 /\ KnownInv
    BY DEF BaseInv
<1> DEFINE e == writer[w].e
<1>1. /\ writer[w] # None /\ e \in Event /\ msgs[e.m] # None
      /\ \A v \in Writers : v # w => writer'[v] = writer[v]
      /\ UNCHANGED <<msgs, queue, proc, results, strayed, crossed>>
    BY <1>0 DEF AddNotification, Types1, StoreTypes, KnownInv, Known, rows, history
<1>2. e.m \in Msgs
    BY <1>1 DEF Event
<1>3. \/ e.type = "delete" /\ writer'[w] = [e |-> e, ready |-> TRUE]
      \/ /\ e.type # "delete" /\ msgs[e.m].live
         /\ writer'[w] = [e |-> [e EXCEPT !.folder = msgs[e.m].folder], ready |-> TRUE]
      \/ e.type # "delete" /\ ~msgs[e.m].live /\ writer'[w] = None
    BY <1>0 DEF AddNotification, Types1, StoreTypes
<1>4. writer'[w] # None => writer'[w].e.m = e.m
    BY <1>1, <1>3 DEF Event
<1> SUFFICES ASSUME NEW n \in Msgs, n \notin crossed' PROVE LastFits(n)'
    BY DEF LastInv
<1>5. LastFits(n)
    BY <1>1 DEF LastInv
<1>6. \A v \in Writers : InHand(v, n)' => InHand(v, n)
    BY <1>1, <1>4 DEF InHand
<1>7. Single(n)'
    BY <1>5, <1>6 DEF LastFits, Single
<1> SUFFICES ASSUME Living(n)' PROVE HandFits(n)' /\ QueueFits(n)' /\ BatchFits(n)'
    BY <1>7 DEF LastFits
<1>8. Living(n) /\ HandFits(n) /\ QueueFits(n) /\ BatchFits(n)
    BY <1>1, <1>5 DEF LastFits, Living
<1>9. InHand(w, n) => /\ writer'[w] # None /\ writer'[w].e.m = n /\ writer'[w].ready
                      /\ writer'[w].e.type = e.type /\ writer'[w].e.folder = msgs[n].folder
                      /\ e.type # "delete"
  <2> SUFFICES ASSUME InHand(w, n)
               PROVE  /\ writer'[w] # None /\ writer'[w].e.m = n /\ writer'[w].ready
                      /\ writer'[w].e.type = e.type /\ writer'[w].e.folder = msgs[n].folder
                      /\ e.type # "delete"
      OBVIOUS
  <2>1. e.m = n /\ msgs[n].live /\ e.type # "delete"
      BY <1>8 DEF InHand, HandFits, Fits, Living
  <2>2. writer'[w] = [e |-> [e EXCEPT !.folder = msgs[n].folder], ready |-> TRUE]
      BY <1>3, <2>1
  <2>3. [e |-> [e EXCEPT !.folder = msgs[n].folder], ready |-> TRUE] # None
    <3>1. msgs[n].folder \in Folders
        BY <1>0, <1>1, <2>1, KnownMessage DEF Types1
    <3>2. [e |-> [e EXCEPT !.folder = msgs[n].folder], ready |-> TRUE] \in [e : Event, ready : BOOLEAN]
        BY <1>1, <3>1 DEF Event
    <3> QED BY <3>2, NoneAssumption
  <2> QED BY <1>1, <2>1, <2>2, <2>3 DEF Event
<1>10. \A v \in Writers : InHand(v, n)' <=> InHand(v, n)
    BY <1>6, <1>9, <1>1 DEF InHand
<1>11. Told(n)' <=> Told(n)
    BY <1>10 DEF Told
<1>12. HandFits(n)'
  <2> SUFFICES ASSUME NEW v \in Writers, InHand(v, n)'
               PROVE  Fits(msgs'[n], results'[n], writer'[v].e.type,
                           IF writer'[v].ready THEN writer'[v].e.folder ELSE msgs'[n].folder)
      BY DEF HandFits
  <2>1. InHand(v, n) /\ Fits(msgs[n], results[n], writer[v].e.type,
                             IF writer[v].ready THEN writer[v].e.folder ELSE msgs[n].folder)
      BY <1>8, <1>10 DEF HandFits
  <2>2. CASE v = w
    <3>1. Fits(msgs[n], results[n], e.type, msgs[n].folder)
        BY <2>1, <2>2 DEF Fits
    <3> QED BY <1>1, <1>9, <2>1, <2>2, <3>1
  <2>3. CASE v # w
      BY <1>1, <2>1, <2>3
  <2> QED BY <2>2, <2>3
<1>13. QueueFits(n)'
    BY <1>1, <1>8, <1>11 DEF QueueFits, LastQueued
<1>14. BatchFits(n)'
    BY <1>1, <1>8, <1>11 DEF BatchFits, LastBatched, Queued, Batched
<1> QED BY <1>12, <1>13, <1>14

\* The change goes to the end of the queue, where it is the last.
LEMMA LastAfterUpdate ==
    ASSUME BaseInv, LastInv, NEW w \in Writers, UpdateSearchFolders(w)
    PROVE  LastInv'
<1>0. Types1 /\ KnownInv
    BY DEF BaseInv
<1> DEFINE e == writer[w].e
           k == Len(queue) + 1
<1>1. /\ writer[w] # None /\ writer[w].ready /\ e \in Event /\ queue \in Seq(Event) /\ queue' = Append(queue, e)
      /\ \A v \in Writers : v # w => writer'[v] = writer[v]
      /\ writer'[w] = None
      /\ UNCHANGED <<msgs, proc, results, strayed, crossed>>
    BY <1>0 DEF UpdateSearchFolders, Types1, StoreTypes, QueueTypes, rows, history
<1>2. /\ Len(queue) \in Nat /\ Len(queue') = k /\ queue'[k] = e
      /\ \A i \in 1 .. Len(queue) : queue'[i] = queue[i] /\ i \in 1 .. k /\ i # k
      /\ \A i \in 1 .. k : i = k \/ i \in 1 .. Len(queue)
      /\ k \in 1 .. k
    BY <1>1
<1> HIDE DEF k
<1> SUFFICES ASSUME NEW n \in Msgs, n \notin crossed' PROVE LastFits(n)'
    BY DEF LastInv
<1>3. LastFits(n)
    BY <1>1 DEF LastInv
<1>4. \A v \in Writers : InHand(v, n)' <=> InHand(v, n) /\ v # w
    BY <1>1 DEF InHand
<1>5. Single(n)'
    BY <1>3, <1>4 DEF LastFits, Single
<1> SUFFICES ASSUME Living(n)' PROVE HandFits(n)' /\ QueueFits(n)' /\ BatchFits(n)'
    BY <1>5 DEF LastFits
<1>6. Living(n) /\ Single(n) /\ HandFits(n) /\ QueueFits(n) /\ BatchFits(n)
    BY <1>1, <1>3 DEF LastFits, Living
<1>7. HandFits(n)'
  <2>1. \A v \in Writers : InHand(v, n)' => InHand(v, n) /\ writer'[v] = writer[v]
      BY <1>1, <1>4
  <2> QED BY <1>1, <1>6, <2>1 DEF HandFits
<1>8. CASE e.m = n
  <2>1. InHand(w, n)
      BY <1>1, <1>8 DEF InHand
  <2>2. Fits(msgs[n], results[n], e.type, e.folder)
      BY <1>1, <1>6, <2>1 DEF HandFits
  <2>3. Queued(n)'
      BY <1>2, <1>8 DEF Queued
  <2>4. ASSUME NEW i \in 1 .. Len(queue'), LastQueued(n, i)'
        PROVE  i = k
    <3>1. k <= i
        BY <1>2, <1>8, <2>4 DEF LastQueued
    <3> QED BY <1>2, <3>1
  <2>5. QueueFits(n)'
      BY <1>1, <1>2, <2>2, <2>4 DEF QueueFits
  <2> QED BY <1>7, <2>3, <2>5 DEF BatchFits
<1>9. CASE e.m # n
  <2>1. Told(n)' <=> Told(n)
      BY <1>4, <1>9 DEF Told, InHand
  <2>2. Queued(n)' <=> Queued(n)
      BY <1>2, <1>9 DEF Queued
  <2>3. ASSUME NEW i \in 1 .. Len(queue'), LastQueued(n, i)'
        PROVE  i \in 1 .. Len(queue) /\ LastQueued(n, i) /\ queue'[i] = queue[i]
    <3>1. i \in 1 .. Len(queue) /\ queue'[i] = queue[i]
        BY <1>2, <1>9, <2>3 DEF LastQueued
    <3>2. \A j \in 1 .. Len(queue) : queue[j].m = n => j <= i
        BY <1>2, <2>3 DEF LastQueued
    <3> QED BY <2>3, <3>1, <3>2 DEF LastQueued
  <2>4. QueueFits(n)'
      BY <1>1, <1>6, <2>1, <2>3 DEF QueueFits
  <2>5. BatchFits(n)'
      BY <1>1, <1>6, <2>1, <2>2 DEF BatchFits, LastBatched, Batched
  <2> QED BY <1>7, <2>4, <2>5
<1> QED BY <1>8, <1>9

\* The last change of the batch was the last of the queue, if none is left there.
LEMMA LastAfterFlush ==
    ASSUME BaseInv, LastInv, FlushEvents
    PROVE  LastInv'
<1>0. Types1
    BY DEF BaseInv
<1>1. PICK n \in 1 .. BatchSize : Flushed(n)
    BY <1>0, FlushKeepsTypes
<1>2. proc'.at = "next" /\ proc'.batch = [i \in 1 .. n |-> queue[i]]
    BY <1>0, <1>1 DEF Types1, QueueTypes, Flushed
<1>3. UNCHANGED <<msgs, writer, results, crossed>>
    BY DEF FlushEvents, store, rows
<1>4. n \in Nat /\ n > 0 /\ Len(queue) \in Nat
    BY <1>0, Numbers DEF Types1, QueueTypes
<1>5. \A i \in 1 .. Len(queue) : i \in 1 .. n \/ (i - n \in 1 .. Len(queue') /\ queue'[i - n] = queue[i])
  <2> SUFFICES ASSUME NEW i \in 1 .. Len(queue), i \notin 1 .. n
               PROVE  i - n \in 1 .. Len(queue') /\ queue'[i - n] = queue[i]
      OBVIOUS
  <2>1. i - n \in 1 .. Len(queue') /\ (i - n) + n = i
      BY <1>1, <1>4 DEF Flushed
  <2> QED BY <1>1, <2>1 DEF Flushed
<1>6. \A i \in 1 .. Len(queue') : i + n \in 1 .. Len(queue) /\ queue'[i] = queue[i + n]
    BY <1>1, <1>4 DEF Flushed
<1> SUFFICES ASSUME NEW m \in Msgs, m \notin crossed' PROVE LastFits(m)'
    BY DEF LastInv
<1>7. LastFits(m)
    BY <1>3 DEF LastInv
<1>8. (Told(m)' <=> Told(m)) /\ (Living(m)' <=> Living(m)) /\ (Single(m)' <=> Single(m))
      /\ (HandFits(m)' <=> HandFits(m))
    BY <1>3 DEF Told, Living, Single, InHand, HandFits
<1> SUFFICES ASSUME Living(m), Told(m) PROVE QueueFits(m)' /\ BatchFits(m)'
    BY <1>7, <1>8 DEF LastFits, QueueFits, BatchFits
<1>9. \A i \in 1 .. Len(queue) : LastQueued(m, i) => Fits(msgs[m], results[m], queue[i].type, queue[i].folder)
    BY <1>7 DEF LastFits, QueueFits
<1>10. ASSUME NEW i \in 1 .. Len(queue'), LastQueued(m, i)'
       PROVE  i + n \in 1 .. Len(queue) /\ LastQueued(m, i + n) /\ queue'[i] = queue[i + n]
  <2>1. i + n \in 1 .. Len(queue) /\ queue'[i] = queue[i + n] /\ queue'[i].m = m
      BY <1>6, <1>10 DEF LastQueued
  <2>2. ASSUME NEW j \in 1 .. Len(queue), queue[j].m = m
        PROVE  j <= i + n
    <3>1. CASE j \in 1 .. n
        BY <1>4, <3>1
    <3>2. CASE j - n \in 1 .. Len(queue') /\ queue'[j - n] = queue[j]
      <4>1. j - n <= i
          BY <1>10, <2>2, <3>2 DEF LastQueued
      <4> QED BY <1>4, <4>1
    <3> QED BY <1>5, <3>1, <3>2
  <2> QED BY <2>1, <2>2 DEF LastQueued
<1>11. QueueFits(m)'
    BY <1>3, <1>9, <1>10 DEF QueueFits
<1>12. ASSUME ~Queued(m)', NEW i \in DOMAIN proc'.batch, LastBatched(m, i)'
       PROVE  i \in 1 .. Len(queue) /\ LastQueued(m, i) /\ proc'.batch[i] = queue[i]
  <2>1. i \in 1 .. n /\ i \in 1 .. Len(queue) /\ proc'.batch[i] = queue[i] /\ queue[i].m = m
      BY <1>1, <1>2, <1>4, <1>12 DEF LastBatched, Flushed
  <2>2. ASSUME NEW j \in 1 .. Len(queue), queue[j].m = m
        PROVE  j <= i
    <3>1. CASE j \in 1 .. n
        BY <1>2, <1>12, <2>2, <3>1 DEF LastBatched
    <3>2. CASE j - n \in 1 .. Len(queue') /\ queue'[j - n] = queue[j]
        BY <1>12, <2>2, <3>2 DEF Queued
    <3> QED BY <1>5, <3>1, <3>2
  <2> QED BY <2>1, <2>2 DEF LastQueued
<1>13. BatchFits(m)'
    BY <1>2, <1>3, <1>9, <1>12 DEF BatchFits
<1> QED BY <1>11, <1>13

\* The events of a message go to ProcessMessageChange in the order in which they came.
LEMMA RunTakesFirst ==
    ASSUME Types1, BatchOrdered, NEW m \in Msgs, m \notin strayed, NEW i \in DOMAIN proc.batch,
           NEW j \in DOMAIN proc.batch, NEW k \in DOMAIN proc.batch, j < k,
           proc.batch[j].m = m, proc.batch[k].m = m, k \in Run(i)
    PROVE  j \in Run(i)
<1>1. \A l \in DOMAIN proc.batch : proc.batch[l].folder \in Nat /\ l \in Nat
  <2> SUFFICES ASSUME NEW l \in DOMAIN proc.batch PROVE proc.batch[l].folder \in Nat /\ l \in Nat
      OBVIOUS
  <2>1. proc.batch[l].folder \in Folders /\ l \in 1 .. BatchSize
      BY BatchEvents DEF Types1, QueueTypes
  <2>2. proc.batch[l].folder \in Nat
      BY <2>1, FoldersAssumption
  <2>3. l \in Nat
      BY <2>1, Numbers
  <2> QED BY <2>2, <2>3
<1>2. proc.batch[j].folder <= proc.batch[k].folder
    BY DEF BatchOrdered
<1>3. SortedBefore(j, k)
    BY <1>1, <1>2 DEF SortedBefore
<1>4. proc.batch[j].folder = proc.batch[i].folder /\ proc.batch[j].type = proc.batch[i].type
    BY <1>3 DEF Run
<1>5. \A l \in DOMAIN proc.batch : SortedBefore(l, j) => SortedBefore(l, k)
    BY <1>1, <1>2 DEF SortedBefore
<1> QED BY <1>4, <1>5 DEF Run

\* The last change of the batch stays the last, or goes to ProcessMessageChange.
LEMMA LastAfterGroup ==
    ASSUME BaseInv, LastInv, BatchOrdered, NextGroup
    PROVE  LastInv'
<1>0. Types1
    BY DEF BaseInv
<1>1. PICK i \in DOMAIN proc.batch : Grouped(i)
    BY <1>0, GroupKeepsTypes
<1>2. /\ proc'.batch = [j \in DOMAIN proc.batch \ Run(i) |-> proc.batch[j]]
      /\ proc'.group = {proc.batch[j].m : j \in Run(i)}
      /\ proc'.type = proc.batch[i].type /\ proc'.folder = proc.batch[i].folder
    BY <1>1 DEF Grouped
<1>3. UNCHANGED <<msgs, writer, results, crossed, strayed, queue>>
    BY DEF NextGroup, store, rows, history
<1>4. \A j \in DOMAIN proc.batch : j \in 1 .. BatchSize /\ j \in Nat
    BY <1>0, BatchEvents, Numbers DEF Types1, QueueTypes
<1> SUFFICES ASSUME NEW m \in Msgs, m \notin crossed' PROVE LastFits(m)'
    BY DEF LastInv
<1>5. LastFits(m)
    BY <1>3 DEF LastInv
<1>6. /\ (Told(m)' <=> Told(m)) /\ (Living(m)' <=> Living(m)) /\ (Single(m)' <=> Single(m))
      /\ (HandFits(m)' <=> HandFits(m)) /\ (Queued(m)' <=> Queued(m))
    BY <1>3 DEF Told, Living, Single, InHand, HandFits, Queued
<1>7. QueueFits(m)' <=> QueueFits(m)
    BY <1>3, <1>6 DEF QueueFits, LastQueued
<1> SUFFICES ASSUME Living(m), Told(m), ~Queued(m), m \notin strayed PROVE BatchFits(m)'
    BY <1>3, <1>5, <1>6, <1>7 DEF LastFits, BatchFits
<1>8. \A j \in DOMAIN proc.batch : LastBatched(m, j) =>
          Fits(msgs[m], results[m], proc.batch[j].type, proc.batch[j].folder)
    BY <1>5 DEF LastFits, BatchFits
<1>9. ASSUME NEW j \in DOMAIN proc'.batch, LastBatched(m, j)'
      PROVE  j \in DOMAIN proc.batch /\ LastBatched(m, j) /\ proc'.batch[j] = proc.batch[j]
  <2>1. /\ j \in DOMAIN proc.batch /\ j \notin Run(i) /\ proc'.batch[j] = proc.batch[j] /\ proc.batch[j].m = m
      BY <1>2, <1>9 DEF LastBatched
  <2>2. ASSUME NEW k \in DOMAIN proc.batch, proc.batch[k].m = m
        PROVE  k <= j
    <3>1. CASE k \in Run(i)
      <4>1. ~(j < k)
          BY <1>0, <2>1, <2>2, <3>1, RunTakesFirst
      <4> QED BY <1>4, <2>1, <4>1
    <3>2. CASE k \notin Run(i)
        BY <1>2, <1>9, <2>2, <3>2 DEF LastBatched
    <3> QED BY <3>1, <3>2
  <2> QED BY <2>1, <2>2 DEF LastBatched
<1>10. ASSUME ~Batched(m)', m \in proc'.group
       PROVE  Fits(msgs[m], results[m], proc'.type, proc'.folder)
  <2> DEFINE S == {j \in DOMAIN proc.batch : proc.batch[j].m = m}
  <2>1. S \in SUBSET (1 .. BatchSize) /\ S # {}
      BY <1>2, <1>4, <1>10 DEF Run
  <2>2. PICK j \in S : \A k \in S : k <= j
      BY <2>1, Largest, Numbers
  <2>3. LastBatched(m, j) /\ j \in DOMAIN proc.batch
      BY <2>2 DEF LastBatched
  <2>4. j \in Run(i)
      BY <1>2, <1>10, <2>2 DEF Batched
  <2>5. proc.batch[j].type = proc'.type /\ proc.batch[j].folder = proc'.folder
      BY <1>2, <2>4 DEF Run
  <2> QED BY <1>8, <2>3, <2>5
<1> QED BY <1>3, <1>8, <1>9, <1>10 DEF BatchFits

\* What the update of the results, and a search, make of the row of a message.
LEMMA RowAfterUpdate ==
    ASSUME BaseInv, ProcessMessageChange, NEW m \in Msgs
    PROVE  /\ results'[m] \in {results[m], "none", RowFor(msgs[m])}
           /\ m \notin proc.group => results'[m] = results[m]
           /\ m \in proc.group /\ Fits(msgs[m], results[m], proc.type, proc.folder)
                 /\ proc.folder \in Scope[obj[map].crit] => results'[m] = RowFor(msgs[m])
<1>1. results' = NewRows
    BY UpdateKeepsTypes DEF BaseInv, KnownInv, ProcessMessageChange
<1>2. results'[m] = IF m \in proc.group THEN Updated(m) ELSE results[m]
    BY <1>1 DEF NewRows
<1>3. Updated(m) \in {results[m], "none", RowFor(msgs[m])}
    BY DEF Updated, Row, RowFor
<1>4. ASSUME Fits(msgs[m], results[m], proc.type, proc.folder), proc.folder \in Scope[obj[map].crit]
      PROVE  Updated(m) = RowFor(msgs[m])
  <2>1. proc.type \in Types /\ proc.type # "delete"
      BY <1>4 DEF Fits, BaseInv, Types1, QueueTypes
  <2>2. Updated(m) = IF msgs[m].hit THEN Row(m) ELSE IF proc.type = "modify" THEN "none" ELSE results[m]
      BY <1>4, <2>1 DEF Updated
  <2>3. proc.type = "modify" \/ results[m] \in {"none", RowFor(msgs[m])}
      BY <1>4, <2>1 DEF Fits, Types
  <2> QED BY <2>2, <2>3 DEF Row, RowFor
<1> QED BY <1>2, <1>3, <1>4

\* The same for the rows that a search adds.
LEMMA RowAfterSearch ==
    ASSUME BaseInv, NEW o \in Objs, ProcessCandidateRows(o)
    PROVE  \E batch \in SUBSET search[o].cands :
              /\ search' = [search EXCEPT ![o].cands = @ \ batch]
              /\ \A m \in Msgs :
                    /\ m \notin batch => results'[m] = results[m]
                    /\ results'[m] \in {results[m], RowFor(msgs[m])}
                    /\ m \in batch /\ results[m] = "none" => results'[m] = RowFor(msgs[m])
<1> DEFINE found(b) == {m \in b : msgs[m].hit}
           unread(b) == {m \in found(b) : ~msgs[m].read /\ results[m] # "unread"}
<1>1. PICK batch \in SUBSET search[o].cands :
          /\ search' = [search EXCEPT ![o].cands = @ \ batch]
          /\ results' = [m \in Msgs |->
                               CASE m \in unread(batch) -> "unread"
                                 [] m \in found(batch) \ unread(batch) /\ results[m] = "none" -> "read"
                                 [] OTHER -> results[m]]
    BY DEF ProcessCandidateRows
<1>2. ASSUME NEW m \in Msgs
      PROVE  /\ m \notin batch => results'[m] = results[m]
             /\ results'[m] \in {results[m], RowFor(msgs[m])}
             /\ m \in batch /\ results[m] = "none" => results'[m] = RowFor(msgs[m])
  <2>1. CASE m \in unread(batch)
      BY <1>1, <2>1 DEF RowFor
  <2>2. CASE m \in found(batch) \ unread(batch) /\ results[m] = "none"
      BY <1>1, <2>2 DEF RowFor
  <2>3. CASE m \notin unread(batch) /\ ~(m \in found(batch) \ unread(batch) /\ results[m] = "none")
      BY <1>1, <2>3 DEF RowFor
  <2> QED BY <2>1, <2>2, <2>3
<1> QED BY <1>1, <1>2

\* Every step keeps LastInv.
LEMMA LastStep ==
    ASSUME BaseInv, LastInv, BatchOrdered, [Next]_vars
    PROVE  LastInv'
<1>0. Types1 /\ DownInv
    BY DEF BaseInv, LiveInv
<1>1. CASE /\ UNCHANGED <<msgs, writer, queue, proc, strayed, crossed>>
           /\ \A m \in Msgs : results'[m] \in {results[m], "none", RowFor(msgs[m])}
    BY <1>1, LastFrame DEF LastInv, SameChanges
<1>2. CASE UNCHANGED <<msgs, writer, queue, proc, strayed, crossed, results>>
    BY <1>1, <1>2
<1>3. CASE UNCHANGED <<msgs, writer, queue, proc, strayed, crossed>> /\ Emptied
    BY <1>1, <1>3 DEF Emptied
<1>4. CASE Process
  <2>1. CASE FlushDone
    <3>1. /\ UNCHANGED <<msgs, writer, queue, strayed, crossed, results>>
          /\ DOMAIN proc.batch = {} /\ DOMAIN proc'.batch = {} /\ proc'.at = "idle"
        BY <2>1, NoEventsBatch DEF FlushDone, NoFlush, store, rows, history
    <3> SUFFICES ASSUME NEW m \in Msgs, m \notin crossed PROVE LastFits(m)'
        BY <3>1 DEF LastInv
    <3>2. LastFits(m)
        BY DEF LastInv
    <3>3. /\ (Told(m)' <=> Told(m)) /\ (Living(m)' <=> Living(m)) /\ (Single(m)' <=> Single(m))
          /\ (HandFits(m)' <=> HandFits(m)) /\ (Queued(m)' <=> Queued(m))
        BY <3>1 DEF Told, Living, Single, InHand, HandFits, Queued
    <3>4. QueueFits(m)' <=> QueueFits(m)
        BY <3>1, <3>3 DEF QueueFits, LastQueued
    <3>5. BatchFits(m)'
        BY <3>1 DEF BatchFits
    <3> QED BY <3>2, <3>3, <3>4, <3>5 DEF LastFits
  <2>2. CASE ProcessMessageChange
    <3>1. /\ UNCHANGED <<msgs, writer, queue, strayed, crossed>>
          /\ proc'.batch = proc.batch /\ proc'.at = "next"
        BY <1>0, <2>2 DEF ProcessMessageChange, store, history, Types1, QueueTypes
    <3>2. \A m \in Msgs : results'[m] \in {results[m], "none", RowFor(msgs[m])}
        BY <2>2, RowAfterUpdate
    <3> QED BY <3>1, <3>2, LastFrame DEF LastInv, SameChanges
  <2>3. CASE UpdateFails
    <3>1. /\ UNCHANGED <<msgs, writer, queue, strayed, crossed, results>> /\ proc.at = "update"
          /\ proc'.batch = proc.batch /\ proc'.group = proc.group /\ proc'.type = proc.type
          /\ proc'.folder = proc.folder
        BY <1>0, <2>3 DEF UpdateFails, store, rows, Types1, QueueTypes
    <3> QED BY <3>1, LastFrame DEF LastInv, SameChanges
  <2> QED BY <1>4, <2>1, <2>2, <2>3, LastAfterFlush, LastAfterGroup DEF Process
<1>5. ASSUME NEW o \in Objs, Search(o)
      PROVE  LastInv'
  <2>1. CASE SearchReset(o)
    <3>1. /\ UNCHANGED <<msgs, writer, queue, proc>> /\ \A m \in Msgs : results'[m] = "none"
          /\ crossed' = {m \in crossed : UnderWay(m)}
          /\ strayed' = IF proc.at = "idle" THEN {} ELSE strayed
        BY <2>1 DEF SearchReset, Emptied, store
    <3> SUFFICES ASSUME NEW m \in Msgs, m \notin crossed' PROVE LastFits(m)'
        BY DEF LastInv
    <3>2. CASE ~UnderWay(m)
      <4>1. ~UnderWay(m)'
          BY <3>1, <3>2 DEF UnderWay, InHand
      <4> QED BY <4>1 DEF UnderWay, LastFits, Single, HandFits, QueueFits, BatchFits, LastQueued, LastBatched
    <3>3. CASE m \notin crossed /\ proc.at # "idle"
      <4>1. LastFits(m) /\ SameChanges(m)
          BY <3>1, <3>3 DEF LastInv, SameChanges
      <4> QED BY <3>1, <4>1, LastFrame
    <3>4. CASE m \notin crossed /\ proc.at = "idle"
      <4>1. LastFits(m) /\ DOMAIN proc'.batch = {} /\ proc'.at # "update"
          BY <1>0, <3>1, <3>4 DEF LastInv, DownInv
      <4>2. /\ (Told(m)' <=> Told(m)) /\ (Living(m)' <=> Living(m)) /\ (Single(m)' <=> Single(m))
            /\ (Queued(m)' <=> Queued(m))
          BY <3>1 DEF Told, Living, Single, InHand, Queued
      <4>3. ASSUME NEW type, NEW f, Fits(msgs[m], results[m], type, f)
            PROVE  Fits(msgs'[m], results'[m], type, f)
          BY <3>1, <4>3, FitsStays
      <4>4. HandFits(m) => HandFits(m)'
          BY <3>1, <4>3 DEF HandFits, InHand
      <4>5. QueueFits(m) => QueueFits(m)'
          BY <3>1, <4>2, <4>3 DEF QueueFits, LastQueued
      <4>6. BatchFits(m)'
          BY <4>1 DEF BatchFits
      <4> QED BY <4>1, <4>2, <4>4, <4>5, <4>6 DEF LastFits
    <3> QED BY <3>1, <3>2, <3>3, <3>4
  <2>2. CASE ProcessCandidateRows(o)
    <3>1. \A m \in Msgs : results'[m] \in {results[m], "none", RowFor(msgs[m])}
        BY <2>2, RowAfterSearch
    <3> QED BY <1>1, <2>2, <3>1 DEF ProcessCandidateRows, store, history
  <2>3. CASE ~SearchReset(o) /\ ~ProcessCandidateRows(o)
      BY <1>2, <1>5, <2>3 DEF Search, SearchFails, SearchFolder, FolderDone, SetRunning,
                              SearchThreadEnds, store, rows, history
  <2> QED BY <2>1, <2>2, <2>3
<1>6. CASE \E w \in Writers : Notify(w)
    BY <1>6, LastAfterAdd, LastAfterUpdate DEF Notify
<1>7. CASE \E c \in Clients : Call(c) \/ CancelSearchFolder(c) \/ AddSearchFolder(c) \/ CallStep(c)
    BY <1>2, <1>3, <1>7 DEF Call, CancelSearchFolder, AddSearchFolder, CallStep, DestroySearchFolder, SetStopped,
           SetRebuild, ResetResults, SaveSearchCriteria, DeleteFolder, store, rows, history
<1>8. CASE Killed
  <2>1. \A m \in Msgs : ~UnderWay(m)'
      BY <1>8, NoEventsBatch DEF Killed, NoFlush, UnderWay, InHand
  <2> QED BY <2>1 DEF UnderWay, LastInv, LastFits, Single, HandFits, QueueFits, BatchFits, LastQueued, LastBatched
<1>9. CASE LoadSearchFolders
    BY <1>2, <1>3, <1>9 DEF LoadSearchFolders, store, rows, history
<1>10. CASE UNCHANGED vars
    BY <1>2, <1>10 DEF vars, store, rows, history
<1> QED BY <1>4, <1>5, <1>6, <1>7, <1>8, <1>9, <1>10, LastAfterChange DEF Next

-------------------------------------------------------------------------------
(* The results are complete.                                               *)

\* What the results are for m: to be made, in the making, about to change, or right.
Seen(m) == Unfinished \/ Ahead(m) \/ UnderWay(m) \/ results[m] = RowFor(msgs[m])

\* The messages that FoundInv is about.
Wanted(m) ==
    /\ m \notin strayed \cup crossed
    /\ Living(m) /\ msgs[m].folder \in Scope[obj[map].crit]

\* FoundInv in these words.
LEMMA FoundMeans ==
    FoundInv <=> (up /\ ~lost /\ map # None => \A m \in Msgs : Wanted(m) => Seen(m))
BY DEF FoundInv, Wanted, Seen

\* The step leaves the search folder alone.
SameFolder ==
    /\ UNCHANGED <<map, search, status, up>> /\ (lost => lost')
    /\ map # None => obj'[map].crit = obj[map].crit
    /\ strayed \cup crossed \subseteq strayed' \cup crossed'

\* A message whose changes stay under way, and whose row changes only to what it should be.
LEMMA SeenStays ==
    ASSUME FoundInv, SameFolder,
           \A m \in Msgs : /\ Wanted(m)' => UnderWay(m)' \/ msgs'[m] = msgs[m]
                           /\ Wanted(m)' /\ msgs'[m] = msgs[m] /\ up /\ ~lost' /\ map # None =>
                                 /\ UnderWay(m) => UnderWay(m)' \/ results'[m] = RowFor(msgs[m])
                                 /\ results'[m] = results[m] \/ UnderWay(m)'
                                    \/ results'[m] = RowFor(msgs[m])
    PROVE  FoundInv'
<1> SUFFICES ASSUME up, ~lost', map # None, NEW m \in Msgs, Wanted(m)'
             PROVE  Seen(m)'
    BY DEF FoundInv, Wanted, Seen, SameFolder
<1>1. CASE UnderWay(m)'
    BY <1>1 DEF Seen
<1>2. CASE ~UnderWay(m)'
  <2>1. msgs'[m] = msgs[m]
      BY <1>2
  <2>2. Wanted(m)
      BY <2>1 DEF Wanted, Living, SameFolder
  <2>3. Seen(m)
      BY <2>2, FoundMeans DEF SameFolder
  <2>4. CASE results'[m] = RowFor(msgs[m])
      BY <2>1, <2>4 DEF Seen
  <2>5. CASE results'[m] # RowFor(msgs[m])
    <3>1. results'[m] = results[m] /\ ~UnderWay(m)
        BY <1>2, <2>1, <2>5
    <3>2. Unfinished \/ Ahead(m)
        BY <2>3, <2>5, <3>1 DEF Seen
    <3> QED BY <2>1, <3>1, <3>2 DEF Seen, Unfinished, Ahead, SameFolder
  <2> QED BY <2>4, <2>5
<1> QED BY <1>1, <1>2

\* A change puts its message under way, and its notification keeps it there.
LEMMA FoundAfterStore ==
    ASSUME BaseInv, LastInv, FoundInv, Change \/ \E w \in Writers : Notify(w)
    PROVE  FoundInv'
<1>0. Types1 /\ KnownInv
    BY DEF BaseInv
<1>1. CASE Change
  <2>1. PICK w \in Writers, m \in Msgs, new \in Message, type \in Types : Stores(w, m, new, type)
      BY <1>0, <1>1, ChangeStores DEF Types1
  <2>2. UNCHANGED <<queue, proc, results, strayed, lost, map, obj, search, status, up>> /\ crossed \subseteq crossed'
      BY <2>1 DEF Stores, Store, rows, props, folder
  <2>3. \A n \in Msgs : n # m => msgs'[n] = msgs[n]
      BY <1>0, <2>1 DEF Stores, Store, Types1, StoreTypes
  <2>4. /\ writer[w] = None /\ InHand(w, m)' /\ \A v \in Writers : v # w => writer'[v] = writer[v]
    <3> DEFINE r == [e |-> [type |-> type, m |-> m, folder |-> new.folder], ready |-> FALSE]
    <3>1. writer' = [writer EXCEPT ![w] = r] /\ writer[w] = None
        BY <2>1 DEF Stores, Store
    <3>2. r \in [e : Event, ready : BOOLEAN]
        BY DEF Event, Message
    <3>3. r # None /\ r.e.m = m
        BY <3>2, NoneAssumption
    <3> HIDE DEF r
    <3> QED BY <1>0, <3>1, <3>3 DEF Types1, StoreTypes, InHand
  <2>5. UnderWay(m)'
      BY <2>4 DEF UnderWay
  <2>6. \A n \in Msgs : UnderWay(n) => UnderWay(n)'
    <3>1. \A n \in Msgs, v \in Writers : InHand(v, n) => InHand(v, n)'
        BY <2>4 DEF InHand
    <3> QED BY <2>2, <3>1 DEF UnderWay
  <2> QED BY <2>2, <2>3, <2>5, <2>6, SeenStays DEF SameFolder
<1>2. ASSUME NEW w \in Writers, Notify(w)
      PROVE  FoundInv'
  <2>1. UNCHANGED <<msgs, proc, results, strayed, crossed, lost, map, obj, search, status, up>>
      BY <1>2 DEF Notify, AddNotification, UpdateSearchFolders, rows, props, folder, history
  <2>2. ASSUME NEW m \in Msgs, Living(m), UnderWay(m)
        PROVE  UnderWay(m)'
    <3>1. CASE AddNotification(w)
      <4>1. queue' = queue /\ \A v \in Writers : v # w => writer'[v] = writer[v]
          BY <1>0, <3>1 DEF AddNotification, Types1, StoreTypes
      <4>2. InHand(w, m) => InHand(w, m)'
        <5> SUFFICES ASSUME InHand(w, m) PROVE InHand(w, m)'
            OBVIOUS
        <5> DEFINE e == writer[w].e
        <5>1. e \in Event /\ e.m = m /\ msgs[m] # None /\ msgs[m].live
            BY <1>0, <2>2 DEF InHand, Living, Types1, StoreTypes
        <5>2. msgs[m].folder \in Folders
            BY <1>0, <5>1, KnownMessage DEF Types1
        <5>3. PICK d \in Event : d.m = m /\ writer'[w] = [e |-> d, ready |-> TRUE]
          <6>1. CASE e.type = "delete"
              BY <1>0, <3>1, <5>1, <6>1 DEF AddNotification, Types1, StoreTypes
          <6>2. CASE e.type # "delete"
            <7>1. writer'[w] = [e |-> [e EXCEPT !.folder = msgs[m].folder], ready |-> TRUE]
                BY <1>0, <3>1, <5>1, <6>2 DEF AddNotification, Types1, StoreTypes
            <7>2. [e EXCEPT !.folder = msgs[m].folder] \in Event /\ [e EXCEPT !.folder = msgs[m].folder].m = m
                BY <5>1, <5>2 DEF Event
            <7> QED BY <7>1, <7>2
          <6> QED BY <6>1, <6>2
        <5>4. [e |-> d, ready |-> TRUE] \in [e : Event, ready : BOOLEAN]
            OBVIOUS
        <5>5. writer'[w] # None
            BY <5>3, <5>4, NoneAssumption
        <5> QED BY <5>3, <5>5 DEF InHand
      <4>3. \A v \in Writers : InHand(v, m) => InHand(v, m)'
          BY <4>1, <4>2 DEF InHand
      <4> QED BY <2>1, <2>2, <4>1, <4>3 DEF UnderWay
    <3>2. CASE UpdateSearchFolders(w)
      <4>1. /\ queue \in Seq(Event) /\ queue' = Append(queue, writer[w].e) /\ writer[w].e \in Event
            /\ \A v \in Writers : v # w => writer'[v] = writer[v]
          BY <1>0, <3>2 DEF UpdateSearchFolders, Types1, StoreTypes, QueueTypes
      <4>2. /\ \A i \in 1 .. Len(queue) : i \in 1 .. Len(queue') /\ queue'[i] = queue[i]
            /\ Len(queue) + 1 \in 1 .. Len(queue') /\ queue'[Len(queue) + 1] = writer[w].e
          BY <4>1
      <4>3. InHand(w, m) => UnderWay(m)'
          BY <4>2 DEF InHand, UnderWay
      <4>4. \A v \in Writers : v # w /\ InHand(v, m) => InHand(v, m)'
          BY <4>1 DEF InHand
      <4> QED BY <2>1, <2>2, <4>2, <4>3, <4>4 DEF UnderWay
    <3> QED BY <1>2, <3>1, <3>2 DEF Notify
  <2>3. \A m \in Msgs : Wanted(m)' => Living(m)
      BY <2>1 DEF Wanted, Living
  <2> QED BY <2>1, <2>2, <2>3, SeenStays DEF SameFolder
<1> QED BY <1>1, <1>2

\* A change that has been processed last leaves the right row.
LEMMA FoundAfterProcess ==
    ASSUME BaseInv, LastInv, FoundInv, Process
    PROVE  FoundInv'
<1>0. Types1 /\ KnownInv
    BY DEF BaseInv
<1>1. UNCHANGED <<msgs, writer, map, obj, search, status, up, crossed>>
    BY DEF Process, FlushEvents, NextGroup, FlushDone, ProcessMessageChange, UpdateFails, store, folder,
           props, history
<1>2. CASE FlushEvents
  <2>1. PICK n \in 1 .. BatchSize : Flushed(n)
      BY <1>0, <1>2, FlushKeepsTypes
  <2>2. proc'.batch = [i \in 1 .. n |-> queue[i]]
      BY <1>0, <2>1 DEF Types1, QueueTypes, Flushed
  <2>3. UNCHANGED <<results, lost>> /\ strayed \subseteq strayed' /\ proc.at = "idle" /\ DOMAIN proc.batch = {}
      BY <1>2 DEF FlushEvents, rows, BaseInv, LiveInv, DownInv
  <2>4. n \in Nat /\ n > 0 /\ Len(queue) \in Nat
      BY <1>0, Numbers DEF Types1, QueueTypes
  <2>5. ASSUME NEW m \in Msgs, UnderWay(m)
        PROVE  UnderWay(m)'
    <3>1. CASE \E w \in Writers : InHand(w, m)
        BY <1>1, <3>1 DEF UnderWay, InHand
    <3>2. ASSUME NEW i \in 1 .. Len(queue), queue[i].m = m
          PROVE  UnderWay(m)'
      <4>1. CASE i <= n
          BY <2>2, <2>4, <3>2, <4>1 DEF UnderWay
      <4>2. CASE ~(i <= n)
        <5>1. i - n \in 1 .. Len(queue') /\ (i - n) + n = i
            BY <2>1, <2>4, <4>2 DEF Flushed
        <5>2. queue'[i - n] = queue[i]
            BY <2>1, <5>1 DEF Flushed
        <5> QED BY <3>2, <5>1, <5>2 DEF UnderWay
      <4> QED BY <4>1, <4>2
    <3> QED BY <2>3, <2>5, <3>1, <3>2 DEF UnderWay
  <2> QED BY <1>1, <2>3, <2>5, SeenStays DEF SameFolder
<1>3. CASE NextGroup
  <2>1. PICK i \in DOMAIN proc.batch : Grouped(i)
      BY <1>0, <1>3, GroupKeepsTypes
  <2>2. /\ proc'.batch = [j \in DOMAIN proc.batch \ Run(i) |-> proc.batch[j]]
        /\ proc'.group = {proc.batch[j].m : j \in Run(i)}
        /\ map # None => proc'.at = "update"
      BY <2>1 DEF Grouped
  <2>3. UNCHANGED <<results, lost, strayed, queue>> /\ proc.at = "next"
      BY <1>3 DEF NextGroup, rows, history
  <2>4. ASSUME NEW m \in Msgs, UnderWay(m), map # None
        PROVE  UnderWay(m)'
    <3>1. CASE \E w \in Writers : InHand(w, m)
        BY <1>1, <3>1 DEF UnderWay, InHand
    <3>2. CASE \E j \in 1 .. Len(queue) : queue[j].m = m
        BY <2>3, <3>2 DEF UnderWay
    <3>3. ASSUME NEW j \in DOMAIN proc.batch, proc.batch[j].m = m
          PROVE  UnderWay(m)'
      <4>1. CASE j \in Run(i)
          BY <2>2, <2>4, <3>3, <4>1 DEF UnderWay
      <4>2. CASE j \notin Run(i)
          BY <2>2, <3>3, <4>2 DEF UnderWay
      <4> QED BY <4>1, <4>2
    <3> QED BY <2>3, <2>4, <3>1, <3>2, <3>3 DEF UnderWay
  <2> QED BY <1>1, <2>3, <2>4, SeenStays DEF SameFolder
<1>4. CASE FlushDone
  <2>1. UNCHANGED <<results, lost, strayed, queue>> /\ proc.at = "next" /\ DOMAIN proc.batch = {}
      BY <1>4 DEF FlushDone, rows, history
  <2>2. \A m \in Msgs : UnderWay(m) => UnderWay(m)'
      BY <1>1, <2>1 DEF UnderWay, InHand
  <2> QED BY <1>1, <2>1, <2>2, SeenStays DEF SameFolder
<1>5. CASE UpdateFails
  <2>1. /\ UNCHANGED <<results, strayed, queue>> /\ (lost => lost')
        /\ proc'.batch = proc.batch /\ proc'.group = proc.group
        /\ ~lost' => proc'.at = proc.at
      BY <1>0, <1>5 DEF UpdateFails, rows, Types1, QueueTypes
  <2>2. \A m \in Msgs : UnderWay(m) /\ ~lost' => UnderWay(m)'
      BY <1>1, <2>1 DEF UnderWay, InHand
  <2> QED BY <1>1, <2>1, <2>2, SeenStays DEF SameFolder
<1>6. CASE ProcessMessageChange
  <2>1. /\ UNCHANGED <<lost, strayed, queue>> /\ proc'.batch = proc.batch /\ proc.at = "update"
      BY <1>0, <1>6 DEF ProcessMessageChange, history, Types1, QueueTypes
  <2>2. ASSUME NEW m \in Msgs, Wanted(m)'
        PROVE  /\ UnderWay(m) => UnderWay(m)' \/ results'[m] = RowFor(msgs[m])
               /\ results'[m] = results[m] \/ UnderWay(m)' \/ results'[m] = RowFor(msgs[m])
    <3>1. Wanted(m)
        BY <1>1, <2>1, <2>2 DEF Wanted, Living
    <3>2. CASE Told(m) /\ ~Queued(m) /\ ~Batched(m)
      <4>1. CASE m \in proc.group
        <5>1. BatchFits(m)
            BY <3>1 DEF Wanted, LastInv, LastFits
        <5>2. Fits(msgs[m], results[m], proc.type, proc.folder)
            BY <2>1, <3>1, <3>2, <4>1, <5>1 DEF BatchFits, Wanted
        <5>3. proc.folder \in Scope[obj[map].crit]
            BY <3>1, <5>2 DEF Fits, Wanted
        <5> QED BY <1>6, <4>1, <5>2, <5>3, RowAfterUpdate
      <4>2. CASE m \notin proc.group
        <5>1. results'[m] = results[m]
            BY <1>6, <4>2, RowAfterUpdate
        <5>2. ~UnderWay(m)
            BY <3>2, <4>2 DEF UnderWay, Told, Queued, Batched
        <5> QED BY <5>1, <5>2
      <4> QED BY <4>1, <4>2
    <3>3. CASE ~(Told(m) /\ ~Queued(m) /\ ~Batched(m))
      <4>1. UnderWay(m)'
          BY <1>1, <2>1, <3>3 DEF UnderWay, Told, Queued, Batched, InHand
      <4> QED BY <4>1
    <3> QED BY <3>2, <3>3
  <2> QED BY <1>1, <2>1, <2>2, SeenStays DEF SameFolder
<1> QED BY <1>2, <1>3, <1>4, <1>5, <1>6 DEF Process

\* What is under way does not depend on the search.
LEMMA SearchUnderWay ==
    ASSUME BaseInv, NEW o \in Objs, Search(o), NEW m \in Msgs
    PROVE  UnderWay(m)' <=> UnderWay(m)
<1>1. UNCHANGED <<writer, queue, proc>>
    BY SearchFrame DEF BaseInv, store
<1> QED BY <1>1 DEF UnderWay, InHand

\* A search leaves no message behind that it does not look at.
LEMMA FoundAfterSearch ==
    ASSUME BaseInv, SoleInv, LastInv, FoundInv, NEW o \in Objs, Search(o)
    PROVE  FoundInv'
<1>0. Types1 /\ ObjInv /\ search \in [Objs -> SearchStates] /\ obj \in [Objs -> ObjStates]
    BY DEF BaseInv, LiveInv, Types1, FolderTypes
<1>1. /\ UNCHANGED <<msgs, map, up>> /\ search[o].at # "none"
    BY <1>0, SearchFrame DEF store
<1>2. map = o \/ map = None
  <2>1. obj[o].live
      BY <1>0, <1>1 DEF ObjInv
  <2> QED BY <2>1 DEF SoleInv, OwnInv
<1>3. CASE map = None
    BY <1>1, <1>3 DEF FoundInv
<1>4. CASE map = o /\ map # None
  <2>0. ~obj[o].exit /\ HalfBuiltIsRebuilt
      BY <1>0, <1>4 DEF ObjInv, SoleInv
  <2>1. CASE SearchReset(o)
    <3>1. /\ \A m \in Msgs : results'[m] = "none"
          /\ search'[o].at = "folders" /\ search'[o].todo = Scope[obj[o].crit] /\ obj' = obj
        BY <1>0, <2>1 DEF SearchReset, Emptied
    <3>2. \A m \in Msgs : Wanted(m)' => Ahead(m)'
        BY <1>1, <1>4, <3>1 DEF Wanted, Ahead
    <3> QED BY <3>2 DEF FoundInv, Wanted
  <2>2. CASE SearchFails(o)
    <3>1. search'[o].at = "end" /\ status' = status
        BY <1>0, <2>2, SetAt DEF SearchFails, SearchAt, props
    <3>2. status = "rebuild"
        BY <1>4, <2>0, <2>2 DEF SearchFails, HalfBuiltIsRebuilt
    <3>3. Unfinished'
        BY <1>1, <1>4, <3>1, <3>2 DEF Unfinished
    <3> QED BY <3>3 DEF FoundInv
  <2>3. CASE SearchFolder(o)
    <3>1. PICK f \in search[o].todo, ok \in BOOLEAN :
            /\ search' = [search EXCEPT ![o] =
                  [at |-> IF ok THEN "rows" ELSE "folders", todo |-> search[o].todo \ {f},
                   cands |-> IF ok THEN {m \in Msgs : msgs[m] # None /\ msgs[m].live /\ msgs[m].folder = f}
                             ELSE {}]]
            /\ lost' = (lost \/ ~ok)
        BY <1>0, <2>3 DEF SearchFolder
    <3>2. search[o].at = "folders" /\ UNCHANGED <<results, obj, strayed, crossed>>
        BY <2>3 DEF SearchFolder, rows
    <3> SUFFICES ASSUME up, ok, ~lost, NEW m \in Msgs, Wanted(m)' PROVE Seen(m)'
        BY <1>1, <3>1 DEF FoundInv, Wanted, Seen
    <3>3. /\ search'[o].at = "rows" /\ search'[o].todo = search[o].todo \ {f}
          /\ search'[o].cands = {n \in Msgs : msgs[n] # None /\ msgs[n].live /\ msgs[n].folder = f}
        BY <1>0, <3>1
    <3>4. Wanted(m)
        BY <1>1, <3>2 DEF Wanted, Living
    <3>5. Seen(m) /\ ~Unfinished
        BY <1>4, <3>2, <3>4, FoundMeans DEF Unfinished
    <3>6. Ahead(m) => Ahead(m)'
        BY <1>1, <1>4, <3>2, <3>3, <3>4 DEF Ahead, Wanted, Living
    <3>7. UnderWay(m)' <=> UnderWay(m)
        BY SearchUnderWay
    <3> QED BY <1>1, <3>2, <3>5, <3>6, <3>7 DEF Seen
  <2>4. CASE ProcessCandidateRows(o)
    <3>1. PICK batch \in SUBSET search[o].cands :
              /\ search' = [search EXCEPT ![o].cands = @ \ batch]
              /\ \A m \in Msgs :
                    /\ m \notin batch => results'[m] = results[m]
                    /\ results'[m] \in {results[m], RowFor(msgs[m])}
                    /\ m \in batch /\ results[m] = "none" => results'[m] = RowFor(msgs[m])
        BY <2>4, RowAfterSearch
    <3>2. search[o].at = "rows" /\ UNCHANGED <<obj, strayed, crossed, lost, status>>
        BY <2>4 DEF ProcessCandidateRows, history, props
    <3>3. /\ search'[o].at = "rows" /\ search'[o].todo = search[o].todo
          /\ search'[o].cands = search[o].cands \ batch
        BY <1>0, <3>1, <3>2 DEF SearchStates
    <3> SUFFICES ASSUME up, ~lost, NEW m \in Msgs, Wanted(m)' PROVE Seen(m)'
        BY <1>1, <3>2 DEF FoundInv, Wanted, Seen
    <3>4. Wanted(m)
        BY <1>1, <3>2 DEF Wanted, Living
    <3>5. Seen(m) /\ ~Unfinished
        BY <1>4, <3>2, <3>4, FoundMeans DEF Unfinished
    <3>6. CASE results'[m] = RowFor(msgs[m])
        BY <1>1, <3>6 DEF Seen
    <3>7. CASE results'[m] # RowFor(msgs[m])
      <4>1. results'[m] = results[m]
          BY <3>1, <3>7
      <4>2. CASE Ahead(m)
        <5>1. m \notin batch
            BY <3>1, <3>7, <4>2 DEF Ahead
        <5>2. Ahead(m)'
            BY <1>1, <1>4, <3>2, <3>3, <4>1, <4>2, <5>1 DEF Ahead
        <5> QED BY <5>2 DEF Seen
      <4>3. CASE UnderWay(m)
          BY <4>3, SearchUnderWay DEF Seen
      <4> QED BY <3>5, <3>7, <4>1, <4>2, <4>3 DEF Seen
    <3> QED BY <3>6, <3>7
  <2>5. CASE FolderDone(o)
    <3>1. search[o].at = "rows" /\ search[o].cands = {} /\ UNCHANGED <<results, obj, strayed, crossed, lost>>
        BY <2>0, <2>5 DEF FolderDone, history, rows
    <3>2. search'[o].at = "folders" /\ search'[o].todo = search[o].todo
        BY <1>0, <2>5 DEF FolderDone, SearchStates
    <3> SUFFICES ASSUME up, ~lost, NEW m \in Msgs, Wanted(m)' PROVE Seen(m)'
        BY <1>1, <3>1 DEF FoundInv, Wanted, Seen
    <3>3. Wanted(m)
        BY <1>1, <3>1 DEF Wanted, Living
    <3>4. Seen(m) /\ ~Unfinished
        BY <1>4, <3>1, <3>3, FoundMeans DEF Unfinished
    <3>5. Ahead(m) => Ahead(m)'
        BY <1>1, <1>4, <3>1, <3>2 DEF Ahead
    <3>6. UnderWay(m)' <=> UnderWay(m)
        BY SearchUnderWay
    <3> QED BY <1>1, <3>1, <3>4, <3>5, <3>6 DEF Seen
  <2>6. CASE SetRunning(o)
    <3>1. search[o].at = "folders" /\ search[o].todo = {} /\ UNCHANGED <<results, obj, strayed, crossed, lost>>
        BY <2>0, <2>6 DEF SetRunning, history, rows
    <3> SUFFICES ASSUME up, ~lost, NEW m \in Msgs, Wanted(m)' PROVE Seen(m)'
        BY <1>1, <3>1 DEF FoundInv, Wanted, Seen
    <3>3. Wanted(m)
        BY <1>1, <3>1 DEF Wanted, Living
    <3>4. Seen(m) /\ ~Unfinished /\ ~Ahead(m)
        BY <1>4, <3>1, <3>3, FoundMeans DEF Unfinished, Ahead
    <3>5. UnderWay(m)' <=> UnderWay(m)
        BY SearchUnderWay
    <3> QED BY <1>1, <3>1, <3>4, <3>5 DEF Seen
  <2>7. CASE SearchThreadEnds(o)
    <3>1. search[o].at = "end" /\ search'[o].at = "none" /\ obj' = [obj EXCEPT ![o].free = TRUE]
          /\ UNCHANGED <<results, strayed, crossed, lost, status>>
        BY <1>0, <2>7 DEF SearchThreadEnds, NoSearch, history, rows, props
    <3>2. obj'[o].crit = obj[o].crit
        BY <1>0, <3>1 DEF ObjStates
    <3> SUFFICES ASSUME up, ~lost, NEW m \in Msgs, Wanted(m)' PROVE Seen(m)'
        BY <1>1, <3>1 DEF FoundInv, Wanted, Seen
    <3>3. Wanted(m)
        BY <1>1, <1>4, <3>1, <3>2 DEF Wanted, Living
    <3>4. Seen(m) /\ ~Ahead(m)
        BY <1>4, <3>1, <3>3, FoundMeans DEF Ahead
    <3>5. Unfinished => Unfinished'
        BY <1>1, <1>4, <3>1 DEF Unfinished
    <3>6. UnderWay(m)' <=> UnderWay(m)
        BY SearchUnderWay
    <3> QED BY <1>1, <3>1, <3>4, <3>5, <3>6 DEF Seen
  <2> QED BY <2>1, <2>2, <2>3, <2>4, <2>5, <2>6, <2>7 DEF Search
<1> QED BY <1>2, <1>3, <1>4

\* A folder that a call puts on the map has its search before it.
LEMMA FoundAfterCall ==
    ASSUME BaseInv, SoleInv, FoundInv, NEW c \in Clients,
           Call(c) \/ CancelSearchFolder(c) \/ AddSearchFolder(c) \/ CallStep(c)
    PROVE  FoundInv'
<1>0. Types1 /\ ObjInv /\ OwnInv
    BY DEF BaseInv, LiveInv, SoleInv
<1>1. CASE map' = None
    BY <1>1 DEF FoundInv
<1>2. CASE /\ UNCHANGED <<msgs, writer, queue, proc, results, map, obj, search, status, up, lost, strayed, crossed>>
    BY <1>2 DEF FoundInv, Living, Unfinished, Ahead, UnderWay, InHand
<1>3. CASE Call(c) \/ SaveSearchCriteria(c) \/ DeleteFolder(c)
    BY <1>2, <1>3 DEF Call, SaveSearchCriteria, DeleteFolder, store, rows, props, history
<1>4. CASE CancelSearchFolder(c)
    BY <1>1, <1>4 DEF CancelSearchFolder
<1>5. CASE DestroySearchFolder(c) \/ SetStopped(c) \/ SetRebuild(c) \/ ResetResults(c)
  <2>1. client[c].at \in {"wait", "stopped", "rebuild", "reset"} /\ map' = map
      BY <1>5 DEF DestroySearchFolder, SetStopped, SetRebuild, ResetResults
  <2> QED BY <1>0, <1>1, <2>1 DEF OwnInv
<1>6. CASE AddSearchFolder(c)
  <2>1. PICK o \in Objs, at \in {"reset", "never"} :
          map' = (IF map = None THEN o ELSE map) /\ search' = [search EXCEPT ![o].at = at]
      BY <1>6 DEF AddSearchFolder, SearchAt
  <2>2. map' = o
      BY <1>0, <1>6, <2>1 DEF AddSearchFolder, OwnInv
  <2>3. search'[o].at = at
      BY <1>0, <2>1, SetAt DEF Types1, FolderTypes
  <2>4. Unfinished'
      BY <2>2, <2>3 DEF Unfinished
  <2> QED BY <2>4 DEF FoundInv
<1> QED BY <1>3, <1>4, <1>5, <1>6 DEF CallStep

\* The results are complete across a restart.
LEMMA FoundAfterServer ==
    ASSUME BaseInv, SoleInv, FoundInv, FoundDown, Killed \/ LoadSearchFolders
    PROVE  FoundInv' /\ FoundDown'
<1>0. Types1 /\ ObjInv /\ DownInv /\ OwnInv /\ HalfBuiltIsRebuilt
    BY DEF BaseInv, LiveInv, SoleInv
<1>1. CASE Killed
  <2>1. /\ up /\ up' = FALSE /\ UNCHANGED <<msgs, results, status, saved, removed, strayed, crossed>>
        /\ ~lost' => /\ ~lost /\ queue = <<>> /\ proc.at = "idle" /\ \A w \in Writers : writer[w] = None
                     /\ \A c \in Clients : client[c].at = "idle"
                     /\ map # None => saved = obj[map].crit
      BY <1>1 DEF Killed, rows, props
  <2>2. FoundInv'
      BY <2>1 DEF FoundInv
  <2> SUFFICES ASSUME ~lost', status = "running", saved # None, ~removed,
                      NEW m \in Msgs, m \notin strayed \cup crossed, Living(m), msgs[m].folder \in Scope[saved]
               PROVE  results[m] = RowFor(msgs[m])
      BY <2>1, <2>2 DEF FoundDown, Living
  <2>3. map # None /\ map \in Objs /\ saved = obj[map].crit
      BY <1>0, <2>1 DEF OwnInv, Types1, FolderTypes
  <2>4. Seen(m)
      BY <2>1, <2>3, FoundMeans DEF Wanted
  <2>5. search[map].at \in {"none", "end"}
      BY <1>0, <2>3 DEF HalfBuiltIsRebuilt
  <2>6. ~Unfinished /\ ~Ahead(m)
      BY <2>5 DEF Unfinished, Ahead
  <2>7. ~UnderWay(m)
      BY <1>0, <2>1 DEF UnderWay, InHand, DownInv
  <2> QED BY <2>4, <2>6, <2>7 DEF Seen
<1>2. CASE LoadSearchFolders
  <2>1. /\ ~up /\ up' = TRUE /\ map = None /\ UNCHANGED <<msgs, status, saved, removed, lost, strayed, crossed>>
      BY <1>0, <1>2 DEF LoadSearchFolders, DownInv, store, props, history
  <2>2. FoundDown'
      BY <2>1 DEF FoundDown
  <2>3. CASE map' = None
      BY <2>2, <2>3 DEF FoundInv
  <2>4. CASE map' # None
    <3>1. /\ status # "stopped" /\ saved # None /\ ~removed
          /\ \E o \in Objs, free \in BOOLEAN, at \in {"none", "reset"} :
              /\ map' = o /\ (at = "none" => status = "running" /\ UNCHANGED rows)
              /\ obj' = [obj EXCEPT ![o] = [live |-> TRUE, crit |-> saved, exit |-> FALSE,
                                            free |-> free]]
              /\ search' = [search EXCEPT ![o].at = at]
        BY <1>2, <2>1, <2>4 DEF LoadSearchFolders, SearchAt
    <3>2. PICK o \in Objs, free \in BOOLEAN, at \in {"none", "reset"} :
              /\ map' = o /\ (at = "none" => status = "running" /\ UNCHANGED rows)
              /\ obj' = [obj EXCEPT ![o] = [live |-> TRUE, crit |-> saved, exit |-> FALSE,
                                            free |-> free]]
              /\ search' = [search EXCEPT ![o].at = at]
        BY <3>1
    <3>3. search'[o].at = at /\ obj'[o].crit = saved
        BY <1>0, <3>2, SetAt DEF Types1, FolderTypes
    <3>4. CASE at = "reset"
      <4>1. Unfinished'
          BY <3>2, <3>3, <3>4 DEF Unfinished
      <4> QED BY <2>2, <4>1 DEF FoundInv
    <3>5. CASE at = "none"
      <4>1. status = "running" /\ results' = results
          BY <3>2, <3>5 DEF rows
      <4> SUFFICES ASSUME ~lost, NEW m \in Msgs, Wanted(m)' PROVE results'[m] = RowFor(msgs'[m])
          BY <2>1, <2>2 DEF FoundInv, Wanted
      <4>2. m \notin strayed \cup crossed /\ Living(m) /\ msgs[m].folder \in Scope[saved]
          BY <2>1, <3>2, <3>3 DEF Wanted, Living
      <4> QED BY <2>1, <3>1, <4>1, <4>2 DEF FoundDown
    <3> QED BY <3>4, <3>5
  <2> QED BY <2>3, <2>4
<1> QED BY <1>1, <1>2

\* What makes the results complete, together.
CompleteInv == BaseInv /\ SoleInv /\ LastInv /\ BatchOrdered /\ FoundInv /\ FoundDown

\* They hold at first,
LEMMA CompleteInit == Init => CompleteInv
<1> SUFFICES ASSUME Init PROVE CompleteInv
    OBVIOUS
<1>1. BaseInv /\ SoleInv
    BY BaseInit, SoleInit
<1>2. LastInv /\ BatchOrdered
    BY NoEventsBatch DEF Init, LastInv, LastFits, Single, HandFits, QueueFits, BatchFits, InHand, NoFlush,
                         BatchOrdered
<1>3. FoundInv /\ FoundDown
    BY DEF Init, FoundInv, FoundDown
<1> QED BY <1>1, <1>2, <1>3 DEF CompleteInv

\* and every step keeps them, if there is one client.
LEMMA CompleteStep ==
    ASSUME OneClient
    PROVE  CompleteInv /\ [Next]_vars => CompleteInv'
<1> SUFFICES ASSUME CompleteInv, [Next]_vars PROVE CompleteInv'
    OBVIOUS
<1>0. BaseInv /\ SoleInv /\ LastInv /\ BatchOrdered /\ FoundInv /\ FoundDown
    BY DEF CompleteInv
<1>1. BaseInv' /\ SoleInv' /\ LastInv' /\ BatchOrdered'
    BY <1>0, BaseStep, SoleStep, LastStep, OrderStays
<1> SUFFICES FoundInv' /\ FoundDown'
    BY <1>1 DEF CompleteInv
<1>2. CASE Killed \/ LoadSearchFolders
    BY <1>0, <1>2, FoundAfterServer
<1>3. CASE UNCHANGED vars
    BY <1>0, <1>3 DEF vars, store, rows, props, folder, history, FoundInv, FoundDown, Living, Unfinished,
                      Ahead, UnderWay, InHand
<1>4. ASSUME ~(Killed \/ LoadSearchFolders), Next PROVE FoundInv' /\ FoundDown'
  <2>1. FoundInv'
      BY <1>0, <1>4, FoundAfterStore, FoundAfterProcess, FoundAfterSearch, FoundAfterCall DEF Next
  <2>2. up'
    <3>1. up /\ up' = up
      <4>1. CASE Change
          BY <1>0, <4>1, ChangeStores DEF BaseInv, Types1, Stores, Store
      <4>2. CASE \E w \in Writers : Notify(w)
          BY <1>0, <4>2 DEF Notify, AddNotification, UpdateSearchFolders, BaseInv, LiveInv, DownInv
      <4>3. CASE Process
          BY <1>0, <4>3 DEF Process, FlushEvents, NextGroup, FlushDone, ProcessMessageChange, UpdateFails,
                            BaseInv, LiveInv, DownInv
      <4>4. ASSUME NEW o \in Objs, Search(o) PROVE up /\ up' = up
        <5>1. up' = up /\ search[o].at # "none"
            BY <1>0, <4>4, SearchFrame DEF BaseInv
        <5> QED BY <1>0, <5>1 DEF BaseInv, LiveInv, ObjInv, DownInv
      <4>5. CASE \E c \in Clients : Call(c) \/ CancelSearchFolder(c) \/ AddSearchFolder(c) \/ CallStep(c)
          BY <1>0, <4>5 DEF Call, CancelSearchFolder, AddSearchFolder, CallStep, DestroySearchFolder,
               SetStopped, SetRebuild, ResetResults, SaveSearchCriteria, DeleteFolder, BaseInv, LiveInv, DownInv
      <4> QED BY <1>4, <4>1, <4>2, <4>3, <4>4, <4>5 DEF Next
    <3> QED BY <3>1
  <2> QED BY <2>1, <2>2 DEF FoundDown
<1> QED BY <1>2, <1>3, <1>4

\* Once it is quiet, every message of the searched folders has its row, with the flag that it
\* has now, if it matches, and no row if it does not: for any number of messages, folders and
\* threads that change messages, any sizes of the batches and any kills of the server, if the
\* calls of a folder come one after another.
THEOREM EveryMatchIsFound ==
    ASSUME OneClient
    PROVE  Spec => []MatchesAreFound
<1>1. CompleteInv => MatchesAreFound
  <2> SUFFICES ASSUME CompleteInv, Quiet, ~lost, NEW m \in Msgs, m \notin strayed \cup crossed,
                      msgs[m] # None, msgs[m].live, msgs[m].folder \in Scope[obj[map].crit]
               PROVE  results[m] = IF msgs[m].hit THEN Row(m) ELSE "none"
      BY DEF MatchesAreFound, Due
  <2>1. up /\ map # None
      BY DEF Quiet, CompleteInv, BaseInv, LiveInv, DownInv
  <2>2. Seen(m)
      BY <2>1, FoundMeans DEF CompleteInv, Wanted, Living
  <2>3. ~Unfinished /\ ~Ahead(m)
      BY DEF Quiet, Unfinished, Ahead
  <2>4. ~UnderWay(m)
      BY DEF Quiet, CompleteInv, BaseInv, LiveInv, DownInv, UnderWay, InHand
  <2> QED BY <2>2, <2>3, <2>4 DEF Seen, RowFor, Row
<1> QED BY <1>1, CompleteInit, CompleteStep, PTL DEF Spec

===============================================================================
