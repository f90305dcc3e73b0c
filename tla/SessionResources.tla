--------------------------- MODULE SessionResources ---------------------------
(***************************************************************************)
(* What a session owns and what it must leave behind: subscriptions to     *)
(* changes (ECSessionGroup::AddAdvise and DelAdvise), the routes by which  *)
(* ECSessionManager::AddNotification finds the groups to tell of a change, *)
(* and the locks of LockManager.                                           *)
(*                                                                         *)
(* A subscription is kept twice: in m_mapSubscribe of the group, which     *)
(* says who is told of what, and as an entry (store, group id) of the      *)
(* manager, which has its own lock.  The group remembers in                *)
(* m_mapSubscribedStores which entries it made, and its destructor takes   *)
(* them back one by one, when the group is no longer listed and a new      *)
(* group with the same id may be making its own.                           *)
(*                                                                         *)
(* ~ECSession releases the group first, then deletes it if that was its    *)
(* last session, and the locks go last, as members of the object.  Which   *)
(* thread may end a session when, and the races over the group object      *)
(* itself, are SessionManager's; here a logon is one step, and an          *)
(* ECSessionGroup is named after the session that created it.              *)
(***************************************************************************)
EXTENDS LockManager, Integers, FiniteSetsExt

CONSTANTS
    GroupIds,   \* session group ids, other than 0
    GroupOf,    \* the group id that a session asks for
    Conns,      \* connection ids, which a client draws for its subscriptions
    Keys,       \* hierarchy ids of stores and folders: numbers
    StoreOf,    \* the store an object is in; a store is in itself
    Interests   \* what clients subscribe to: an object, and a set of "object", "newmail"

ASSUME GroupOfAssumption == GroupOf \in [Sessions -> GroupIds]
ASSUME StoreOfAssumption ==
    /\ Keys \subseteq Nat /\ StoreOf \in [Keys -> Keys]
    /\ \A k \in Keys : StoreOf[StoreOf[k]] = StoreOf[k]
ASSUME InterestsAssumption ==
    Interests \subseteq [key : Keys, mask : SUBSET {"object", "newmail"}]

Stores == {StoreOf[k] : k \in Keys}

VARIABLES
    groups,     \* m_mapSessionGroups: the group object of an id
    grp,        \* ECSession::m_lpSessionGroup
    members,    \* ECSessionGroup::m_mapSessions, per group object
    subs,       \* m_mapSubscribe, per group object
    entries,    \* m_mapSubscribedStores, per group object: how many entries a key has
    routes,     \* ECSessionManager::m_mapObjectSubscriptions: entries per store and id
    step,       \* what the thread that works for a session, or deletes it, is doing
    client,     \* what the client knows of its connections
    pub         \* a thread in ECSessionManager::AddNotification

subsVars == <<groups, grp, members, subs, entries, routes, step, client, pub>>
allVars == <<vars, subsVars>>

\* No call and no deletion; the place in AddAdvise or ~ECSession, with the subscription or
\* the group object it is about.
Idle == [at |-> "idle"]
Off == [at |-> "off"]

\* A connection: never used, being subscribed, subscribed, or dropped; "ignored" when the
\* map of the group kept an older subscription in its place.
Free == [at |-> "free"]

SubsInit ==
    /\ groups = [g \in GroupIds |-> NoSession] /\ grp = [s \in Sessions |-> NoSession]
    /\ members = [s \in Sessions |-> {}]
    /\ subs = [s \in Sessions |-> {}]
    /\ entries = [s \in Sessions |-> [k \in Keys |-> 0]]
    /\ routes = [st \in Stores |-> [g \in GroupIds |-> 0]]
    /\ step = [s \in Sessions |-> Idle]
    /\ client = [c \in Conns |-> Free]
    /\ pub = Off

\* GetSessionGroup: a listed group is joined, otherwise one is created and listed.
LogonSession(s) ==
    /\ Logon(s)
    /\ LET g == GroupOf[s]
           o == IF groups[g] = NoSession THEN s ELSE groups[g] IN
       /\ groups' = [groups EXCEPT ![g] = o]
       /\ grp' = [grp EXCEPT ![s] = o]
       /\ members' = [members EXCEPT ![o] = @ \cup {s}]
    /\ UNCHANGED <<subs, entries, routes, step, client, pub>>

\* A client asks for one thing at a time in a session.
Calls(s) == session[s] = "live" /\ step[s] = Idle

-------------------------------------------------------------------------------
(* Subscribing: notifySubscribe, and each round of notifySubscribeMulti.   *)

\* A client draws a new connection id for a new subscription; when its session has ended
\* it registers the ids it has again, in a session of the same group (Reregister).
MayRegister(s, c, i) ==
    \/ client[c] = Free
    \/ /\ client[c].at = "active" /\ session[client[c].s] \in {"ending", "gone"}
       /\ GroupOf[client[c].s] = GroupOf[s]
       /\ i = [key |-> client[c].key, mask |-> client[c].mask]

\* The reply to a subscription: the client may count on it.
Confirm(c) == client' = [client EXCEPT ![c].at = "active"]

\* Mutant: the mask of DelAdvise, which leaves out new mail.
RoutesObjectsOnly(mask) == "object" \in mask

\* The events that the manager has to be told of; a table notification is not one.
Routed(mask) == mask \cap {"object", "newmail"} # {}

\* AddAdvise enters the subscription; std::map::insert does nothing if there is one with
\* the same connection id.
AddAdvise(s, c, i) ==
    /\ Calls(s) /\ MayRegister(s, c, i)
    /\ LET old == {m \in subs[grp[s]] : m.conn = c} IN
       /\ subs' = IF old # {} THEN subs
                  ELSE [subs EXCEPT ![grp[s]] =
                          @ \cup {[conn |-> c, s |-> s, key |-> i.key, mask |-> i.mask]}]
       /\ client' = [client EXCEPT ![c] =
                       [at |-> IF Routed(i.mask) THEN "asked" ELSE "active", s |-> s,
                        key |-> i.key, mask |-> i.mask, ignored |-> old # {}]]
    /\ step' = IF ~Routed(i.mask) THEN step
               ELSE [step EXCEPT ![s] = [at |-> "route", conn |-> c, key |-> i.key]]
    /\ UNCHANGED <<vars, groups, grp, members, entries, routes, pub>>

\* SubscribeObjectEvents: the manager's entry, for object events and new mail.
AddRoute(s) ==
    /\ step[s].at = "route"
    /\ routes' = [routes EXCEPT ![StoreOf[step[s].key]][GroupOf[s]] = @ + 1]
    /\ step' = [step EXCEPT ![s].at = "enter"]
    /\ UNCHANGED <<vars, groups, grp, members, subs, entries, client, pub>>

\* The group notes the entry it has made, and the call returns.
AddEntry(s) ==
    /\ step[s].at = "enter"
    /\ entries' = [entries EXCEPT ![grp[s]][step[s].key] = @ + 1]
    /\ Confirm(step[s].conn)
    /\ step' = [step EXCEPT ![s] = Idle]
    /\ UNCHANGED <<vars, groups, grp, members, subs, routes, pub>>

-------------------------------------------------------------------------------
(* Unsubscribing.                                                          *)

\* Mutant: every entry of the group for the store is erased.
UnsubscribeAll(r, st, g) == {[r EXCEPT ![st][g] = 0]}

\* ECSessionManager::UnsubscribeObjectEvents erases one entry of the group.  Without one,
\* the search through the entries of the store runs on to the first entry of the next
\* store, and that is erased, whosever it is.
UnsubscribeObjectEvents(r, st, g) ==
    LET used == {t \in Stores : \E h \in GroupIds : r[t][h] > 0}
        next == {t \in used : t > st} IN
    IF r[st][g] > 0 THEN {[r EXCEPT ![st][g] = @ - 1]}
    ELSE IF st \in used /\ next # {}
    THEN {[r EXCEPT ![Min(next)][h] = @ - 1] : h \in {h \in GroupIds : r[Min(next)][h] > 0}}
    ELSE {r}

\* The manager's entry is taken back and the note of it erased; an ASSERT says that there
\* is one.
DropRoute(o, g, m) ==
    IF "object" \in m.mask /\ entries[o][m.key] > 0
    THEN /\ routes' \in UnsubscribeObjectEvents(routes, StoreOf[m.key], g)
         /\ entries' = [entries EXCEPT ![o][m.key] = @ - 1]
    ELSE UNCHANGED <<routes, entries>>

\* notifyUnSubscribe, each round of notifyUnSubscribeMulti, and the clean-up of
\* notifySubscribeMulti: DelAdvise, under m_hNotificationLock.  The session of the
\* subscription is not compared.
DelAdvise(s, c) ==
    /\ Calls(s) /\ client[c].at = "active" /\ client[c].s = s
    /\ LET o == grp[s]
           mine == {m \in subs[o] : m.conn = c} IN
       /\ subs' = [subs EXCEPT ![o] = @ \ mine]
       /\ IF mine = {} THEN UNCHANGED <<routes, entries>>
          ELSE \E m \in mine : DropRoute(o, GroupOf[s], m)
    /\ client' = [client EXCEPT ![c] = [at |-> "dropped"]]
    /\ pub' = IF pub = Off THEN Off ELSE [pub EXCEPT !.want = @ \ {c}]
    /\ UNCHANGED <<vars, groups, grp, members, step>>

-------------------------------------------------------------------------------
(* The end of a session: ~ECSession.                                       *)

\* The session is off the map and its last call has returned.
StartEnd(s) ==
    /\ EndSession(s) /\ step[s] = Idle
    /\ step' = [step EXCEPT ![s] = [at |-> "release"]]
    /\ pub' = IF pub = Off THEN Off
              ELSE [pub EXCEPT !.want = {c \in @ : client[c].s # s}]
    /\ UNCHANGED <<groups, grp, members, subs, entries, routes, client>>

\* ECSessionGroup::ReleaseSession drops the subscriptions of the session; what it noted in
\* m_mapSubscribedStores stays until the group goes.
ReleaseSession(s) ==
    /\ step[s].at = "release"
    /\ members' = [members EXCEPT ![grp[s]] = @ \ {s}]
    /\ subs' = [subs EXCEPT ![grp[s]] = {m \in @ : m.s # s}]
    /\ step' = [step EXCEPT ![s].at = "orphan"]
    /\ UNCHANGED <<vars, groups, grp, entries, routes, client, pub>>

\* DeleteIfOrphaned: a group without sessions is taken off the list ...
DeleteIfOrphaned(s) ==
    /\ step[s].at = "orphan"
    /\ LET o == groups[GroupOf[s]] IN
       IF o # NoSession /\ members[o] = {}
       THEN /\ groups' = [groups EXCEPT ![GroupOf[s]] = NoSession]
            /\ step' = [step EXCEPT ![s] = [at |-> "delete", group |-> o]]
       ELSE /\ step' = [step EXCEPT ![s] = [at |-> "locks"]]
            /\ UNCHANGED groups
    /\ UNCHANGED <<vars, grp, members, subs, entries, routes, client, pub>>

\* Mutant: the destructor leaves the entries of the manager alone.
DeleteGroupOnly(s) ==
    /\ step[s].at = "delete"
    /\ entries' = [entries EXCEPT ![step[s].group] = [k \in Keys |-> 0]]
    /\ step' = [step EXCEPT ![s] = [at |-> "locks"]]
    /\ UNCHANGED <<vars, groups, grp, members, subs, routes, client, pub>>

\* ... and deleted: ~ECSessionGroup takes back its entries, in the order of their keys.
DeleteGroup(s) ==
    /\ step[s].at = "delete"
    /\ LET o == step[s].group
           left == {k \in Keys : entries[o][k] > 0} IN
       IF left = {}
       THEN /\ step' = [step EXCEPT ![s] = [at |-> "locks"]]
            /\ UNCHANGED <<routes, entries>>
       ELSE /\ routes' \in UnsubscribeObjectEvents(routes, StoreOf[Min(left)], GroupOf[s])
            /\ entries' = [entries EXCEPT ![o][Min(left)] = @ - 1]
            /\ UNCHANGED step
    /\ UNCHANGED <<vars, groups, grp, members, subs, client, pub>>

-------------------------------------------------------------------------------
(* A change: ECSessionManager::AddNotification.                            *)

Match(m, key, event) == event \in m.mask /\ m.key \in {key, StoreOf[key]}

\* Subscriptions that the client has been told of, in a session that goes on.
Promised(key, event) ==
    {c \in Conns : /\ client[c].at = "active" /\ ~client[c].ignored
                   /\ session[client[c].s] = "live"
                   /\ Match(client[c], key, event)}

\* The ids of the groups are collected under m_mutexObjectSubscriptions.
Publish(key, event) ==
    /\ pub = Off
    /\ pub' = [at |-> "deliver", key |-> key, event |-> event,
               todo |-> {g \in GroupIds : routes[StoreOf[key]][g] > 0},
               want |-> Promised(key, event)]
    /\ UNCHANGED <<vars, groups, grp, members, subs, entries, routes, step, client>>

\* Each group that is still listed enters one notification for each subscription.
Deliver(g) ==
    /\ pub # Off /\ g \in pub.todo
    /\ LET o == groups[g]
           got == IF o = NoSession THEN {}
                  ELSE {m.conn : m \in {x \in subs[o] : Match(x, pub.key, pub.event)}} IN
       pub' = [pub EXCEPT !.todo = @ \ {g}, !.want = @ \ got]
    /\ UNCHANGED <<vars, groups, grp, members, subs, entries, routes, step, client>>

Published ==
    /\ pub # Off /\ pub.todo = {}
    /\ pub' = Off
    /\ UNCHANGED <<vars, groups, grp, members, subs, entries, routes, step, client>>

-------------------------------------------------------------------------------
(* The system.                                                             *)

\* setLockState in between the other calls; locks go last when the session ends.
LockSteps(s, o) ==
    /\ \/ Calls(s) /\ (LockObject(s, o) \/ UnlockObject(s, o))
       \/ step[s].at = "locks" /\ HandleDestroyed(s, o)
    /\ UNCHANGED subsVars

Gone(s) == step[s].at = "locks" /\ SessionGone(s) /\ UNCHANGED subsVars

SessionStep(s) ==
    \/ LogonSession(s)
    \/ \E c \in Conns, i \in Interests : AddAdvise(s, c, i)
    \/ AddRoute(s) \/ AddEntry(s)
    \/ \E c \in Conns : DelAdvise(s, c)
    \/ StartEnd(s) \/ ReleaseSession(s) \/ DeleteIfOrphaned(s) \/ DeleteGroup(s)
    \/ \E o \in Objects : LockSteps(s, o)
    \/ Gone(s)

Publishing ==
    \/ \E key \in Keys, event \in {"object", "newmail"} : Publish(key, event)
    \/ \E g \in GroupIds : Deliver(g)
    \/ Published

ResourcesInit == Init /\ SubsInit
ResourcesNext == (\E s \in Sessions : SessionStep(s)) \/ Publishing
ResourcesSpec == ResourcesInit /\ [][ResourcesNext]_allVars

-------------------------------------------------------------------------------
(* Properties                                                              *)

\* The entries that the groups of an id have noted in e, numbered for each key, and the calls
\* that are about to note one.
Noted(e, st, g) ==
    UNION {{<<p, n>> : n \in 1 .. e[p[1]][p[2]]} :
             p \in {x \in Sessions \X Keys : GroupOf[x[1]] = g /\ StoreOf[x[2]] = st}}
Entering(st, g) ==
    {s \in Sessions : step[s].at = "enter" /\ GroupOf[s] = g /\ StoreOf[step[s].key] = st}

\* The manager routes a store to a group id exactly as often as the groups with that id,
\* the one that is being deleted included, will take the entry back: none is left behind
\* when a group is gone, and the deletion of a group takes none from its successor.
RoutesBalanced ==
    \A st \in Stores, g \in GroupIds :
        routes[st][g] = Cardinality(Noted(entries, st, g)) + Cardinality(Entering(st, g))

\* A subscription that the server has confirmed is told of every change that it asked for
\* until it is withdrawn or its session ends, whatever other sessions of the group subscribe
\* to, withdraw or leave behind.  (One that was registered again while the session that had
\* it was being deleted is excepted: see AddAdvise.)
NothingMissed == pub # Off /\ pub.todo = {} => pub.want = {}

===============================================================================
