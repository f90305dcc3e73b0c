---------------------------- MODULE SessionManager ----------------------------
(***************************************************************************)
(* ECSessionManager, ECSession and ECSessionGroup: how sessions and        *)
(* session groups are created, locked, removed and deleted.                *)
(*                                                                         *)
(* A thread that works for a session holds a count on it.  A session that  *)
(* ends is taken off m_mapSessions first, so that nobody can lock it any   *)
(* more, and is deleted by the thread that took it off, after the count    *)
(* has dropped to zero.  Sessions with the same group id share an          *)
(* ECSessionGroup, which the last of them deletes.                         *)
(*                                                                         *)
(* A session id is drawn once (CreateSessionID), so it names the ECSession *)
(* too; a session creates at most one group, so that ECSessionGroup is     *)
(* named after the session that created it.                                *)
(***************************************************************************)
EXTENDS Integers, FiniteSets

CONSTANTS
    Workers,      \* threads that handle RPCs
    Cancellers,   \* the workers that may be given "kill_sessions"
    Cleaner,      \* the SessionCleaner thread
    MainThread,   \* main(), which removes all sessions at the end
    Sids,         \* session ids
    Gids,         \* session group ids
    NoGid,        \* 0: each session is its own group
    None          \* a null pointer

ASSUME ThreadsAssumption ==
    /\ Cleaner \notin Workers /\ MainThread \notin Workers /\ Cleaner # MainThread
    /\ Cancellers \subseteq Workers
ASSUME WorkersFinite == IsFiniteSet(Workers)
ASSUME IdsAssumption == NoGid \notin Gids /\ None \notin Sids

Threads == Workers \cup {Cleaner, MainThread}

VARIABLES
    sessions,   \* m_mapSessions: ids that can be validated
    obj,        \* the ECSession objects
    ref,        \* m_ulRefCount
    expired,    \* sessions whose m_sessionTime is too long ago
    gid,        \* m_ecSessionGroupId, per session
    group,      \* m_lpSessionGroup, per session
    groups,     \* m_mapSessionGroups
    gobj,       \* the ECSessionGroup objects
    members,    \* ECSessionGroup::m_mapSessions
    th,         \* the threads
    stopped     \* MainLoop has returned

vars == <<sessions, obj, ref, expired, gid, group, groups, gobj, members, th, stopped>>
groupVars == <<group, groups, gobj, members>>

\* What a thread is doing; the session it has locked; the session it creates or deletes;
\* sessions it has taken off the map and still has to delete; the group id it has read.
At == {"idle", "upgrade", "register", "work", "busy", "unbusy", "remove", "shutdown",
       "release", "unsubscribe", "orphan", "orphanLock"}
ThreadState ==
    [at : At, held : Sids \cup {None}, s : Sids \cup {None}, todo : SUBSET Sids,
     id : Gids \cup {NoGid}]

Idle == [at |-> "idle", held |-> None, s |-> None, todo |-> {}, id |-> NoGid]

TypeOK ==
    /\ sessions \subseteq Sids /\ expired \subseteq Sids
    /\ obj \in [Sids -> {"none", "live", "freed", "leaked"}]
    /\ ref \in [Sids -> Nat]
    /\ gid \in [Sids -> Gids \cup {NoGid}]
    /\ group \in [Sids -> Sids \cup {None}]
    /\ groups \in [Gids -> Sids \cup {None}]
    /\ gobj \in [Sids -> {"none", "live", "freed"}]
    /\ members \in [Sids -> SUBSET Sids]
    /\ th \in [Threads -> ThreadState]
    /\ stopped \in BOOLEAN

Init ==
    /\ sessions = {} /\ expired = {}
    /\ obj = [s \in Sids |-> "none"] /\ ref = [s \in Sids |-> 0]
    /\ gid = [s \in Sids |-> NoGid] /\ group = [s \in Sids |-> None]
    /\ groups = [g \in Gids |-> None]
    /\ gobj = [s \in Sids |-> "none"] /\ members = [s \in Sids |-> {}]
    /\ th = [t \in Threads |-> Idle]
    /\ stopped = FALSE

Goto(t, where) == th' = [th EXCEPT ![t].at = where]

-------------------------------------------------------------------------------
(* Logon.                                                                  *)

\* Session s joins the group o (AddSession).
Join(s, o) ==
    /\ group' = [group EXCEPT ![s] = o]
    /\ members' = [members EXCEPT ![o] = @ \cup {s}]

\* ... by creating it.
JoinNew(s) == Join(s, s) /\ gobj' = [gobj EXCEPT ![s] = "live"]

\* The constructor of ECSession calls GetSessionGroup: with the group list locked for
\* reading, a group that exists is joined.
LogonFind(t, s, g) ==
    /\ th[t] = Idle /\ t \in Workers /\ ~stopped /\ obj[s] = "none"
    /\ \A u \in Threads : th[u].s # s
    /\ gid' = [gid EXCEPT ![s] = g]
    /\ \/ /\ g = NoGid
          /\ JoinNew(s)
          /\ th' = [th EXCEPT ![t] = [Idle EXCEPT !.at = "register", !.s = s]]
       \/ /\ g \in Gids /\ groups[g] # None
          /\ Join(s, groups[g])
          /\ UNCHANGED gobj
          /\ th' = [th EXCEPT ![t] = [Idle EXCEPT !.at = "register", !.s = s]]
       \/ /\ g \in Gids /\ groups[g] = None
          /\ th' = [th EXCEPT ![t] = [Idle EXCEPT !.at = "upgrade", !.s = s]]
          /\ UNCHANGED <<group, gobj, members>>
    /\ UNCHANGED <<sessions, obj, ref, expired, groups, stopped>>

\* The lock has been released and taken again for writing: a group is created, and
\* inserted unless the list has a group with that id by now.
LogonUpgrade(t) ==
    /\ th[t].at = "upgrade"
    /\ LET s == th[t].s IN
       /\ JoinNew(s)
       /\ groups' = [groups EXCEPT ![gid[s]] = IF @ = None THEN s ELSE @]
    /\ Goto(t, "register")
    /\ UNCHANGED <<sessions, obj, ref, expired, gid, stopped>>

\* RegisterSession: the session is locked for the caller and put on the map.
Register(t) ==
    /\ th[t].at = "register"
    /\ LET s == th[t].s IN
       /\ sessions' = sessions \cup {s}
       /\ obj' = [obj EXCEPT ![s] = "live"]
       /\ ref' = [ref EXCEPT ![s] = @ + 1]
       /\ th' = [th EXCEPT ![t] = [@ EXCEPT !.at = "work", !.held = s, !.s = None]]
    /\ UNCHANGED <<expired, gid, groupVars, stopped>>

\* SetUserContext has failed: CreateECSession deletes the session again.
RegisterFails(t) ==
    /\ th[t].at = "register"
    /\ obj' = [obj EXCEPT ![th[t].s] = "live"]
    /\ Goto(t, "release")
    /\ UNCHANGED <<sessions, ref, expired, gid, groupVars, stopped>>

-------------------------------------------------------------------------------
(* Requests.                                                               *)

\* Mutant: the session is looked up and locked, without the lock on the map in between.
ValidateUnlocked(t, s) ==
    /\ th[t] = Idle /\ t \in Workers /\ ~stopped /\ s \in sessions
    /\ expired' = expired \ {s}
    /\ th' = [th EXCEPT ![t] = [Idle EXCEPT !.at = "work", !.held = s]]
    /\ UNCHANGED <<sessions, obj, ref, gid, groupVars, stopped>>

\* ValidateSession: looked up and locked in one go; that also renews the session time.
ValidateSession(t, s) ==
    /\ th[t] = Idle /\ t \in Workers /\ ~stopped /\ s \in sessions
    /\ expired' = expired \ {s}
    /\ ref' = [ref EXCEPT ![s] = @ + 1]
    /\ th' = [th EXCEPT ![t] = [Idle EXCEPT !.at = "work", !.held = s]]
    /\ UNCHANGED <<sessions, obj, gid, groupVars, stopped>>

Unlock(t) == ref' = [ref EXCEPT ![th[t].held] = @ - 1]

\* Mutant: an early return of the handler leaves the session locked.
FinishLocked(t) ==
    /\ th[t].at = "work"
    /\ th' = [th EXCEPT ![t] = [Idle EXCEPT !.at = "busy", !.s = th[t].held]]
    /\ UNCHANGED <<sessions, obj, ref, expired, gid, groupVars, stopped>>

\* The handler unlocks the session.
Finish(t) ==
    /\ th[t].at = "work"
    /\ Unlock(t)
    /\ th' = [th EXCEPT ![t] = [Idle EXCEPT !.at = "busy", !.s = th[t].held]]
    /\ UNCHANGED <<sessions, obj, expired, gid, groupVars, stopped>>

\* After the reply the worker locks the session by its id once more, if it is still there,
\* to remove its busy state.
RemoveBusyState(t) ==
    /\ th[t].at = "busy"
    /\ LET s == th[t].s IN
       \/ /\ s \in sessions
          /\ ref' = [ref EXCEPT ![s] = @ + 1]
          /\ expired' = expired \ {s}
          /\ th' = [th EXCEPT ![t] = [@ EXCEPT !.at = "unbusy", !.held = s, !.s = None]]
       \/ /\ s \notin sessions
          /\ th' = [th EXCEPT ![t] = Idle]
          /\ UNCHANGED <<ref, expired>>
    /\ UNCHANGED <<sessions, obj, gid, groupVars, stopped>>

BusyStateRemoved(t) ==
    /\ th[t].at = "unbusy"
    /\ Unlock(t)
    /\ th' = [th EXCEPT ![t] = Idle]
    /\ UNCHANGED <<sessions, obj, expired, gid, groupVars, stopped>>

-------------------------------------------------------------------------------
(* The end of a session.                                                   *)

\* ns__logoff unlocks the session it has validated ...
Logoff(t) ==
    /\ th[t].at = "work"
    /\ Unlock(t)
    /\ th' = [th EXCEPT ![t] = [Idle EXCEPT !.at = "remove", !.s = th[t].held]]
    /\ UNCHANGED <<sessions, obj, expired, gid, groupVars, stopped>>

\* Mutant: RemoveSession does not mind that the session is off the map already.
RemoveAgain(t) ==
    /\ th[t].at = "remove"
    /\ LET s == th[t].s IN
       /\ sessions' = sessions \ {s}
       /\ th' = [th EXCEPT ![t] = [Idle EXCEPT !.at = "shutdown", !.todo = {s}]]
    /\ UNCHANGED <<obj, ref, expired, gid, groupVars, stopped>>

\* ... and RemoveSession takes it off the map, if nobody else has.
RemoveSession(t) ==
    /\ th[t].at = "remove"
    /\ LET s == th[t].s IN
       /\ sessions' = sessions \ {s}
       /\ th' = [th EXCEPT ![t] = IF s \in sessions
                                  THEN [Idle EXCEPT !.at = "shutdown", !.todo = {s}]
                                  ELSE Idle]
    /\ UNCHANGED <<obj, ref, expired, gid, groupVars, stopped>>

Expire(s) ==
    /\ s \in sessions \ expired
    /\ expired' = expired \cup {s}
    /\ UNCHANGED <<sessions, obj, ref, gid, groupVars, th, stopped>>

\* Every five seconds SessionCleaner takes all sessions that have timed out off the map.
Clean ==
    /\ th[Cleaner] = Idle /\ sessions \cap expired # {}
    /\ sessions' = sessions \ expired
    /\ th' = [th EXCEPT ![Cleaner] = [Idle EXCEPT !.at = "shutdown", !.todo = sessions \cap expired]]
    /\ UNCHANGED <<obj, ref, expired, gid, groupVars, stopped>>

\* CancelAllSessions, called in a request of the session that is spared.
CancelAllSessions(t) ==
    /\ t \in Cancellers /\ th[t].at = "work" /\ sessions \ {th[t].held} # {}
    /\ sessions' = sessions \cap {th[t].held}
    /\ th' = [th EXCEPT ![t] = [@ EXCEPT !.at = "shutdown", !.todo = sessions \ {th[t].held}]]
    /\ UNCHANGED <<obj, ref, expired, gid, groupVars, stopped>>

\* MainLoop returns when no worker is left; RemoveAllSessions.
RemoveAllSessions ==
    /\ ~stopped /\ \A t \in Workers : th[t] = Idle
    /\ stopped' = TRUE
    /\ sessions' = {}
    /\ th' = [th EXCEPT ![MainThread] = [Idle EXCEPT !.at = "shutdown", !.todo = sessions]]
    /\ UNCHANGED <<obj, ref, expired, gid, groupVars>>

-------------------------------------------------------------------------------
(* Deletion, by the thread that took the session off the map.              *)

\* RemoveSession and SessionCleaner wait with a timeout; the others call the destructor,
\* which waits for as long as it takes.
Timed(t) == t \in Workers \cup {Cleaner} /\ th[t].held = None

\* Mutant: the session is deleted while requests are running.
DeleteBusy(t, s) ==
    /\ th[t].at = "shutdown" /\ s \in th[t].todo
    /\ th' = [th EXCEPT ![t] = [@ EXCEPT !.at = "release", !.s = s, !.todo = th[t].todo \ {s}]]
    /\ UNCHANGED <<sessions, obj, ref, expired, gid, groupVars, stopped>>

\* Shutdown: no thread is using the session any more.
Shutdown(t, s) ==
    /\ th[t].at = "shutdown" /\ s \in th[t].todo /\ ref[s] = 0
    /\ th' = [th EXCEPT ![t] = [@ EXCEPT !.at = "release", !.s = s, !.todo = th[t].todo \ {s}]]
    /\ UNCHANGED <<sessions, obj, ref, expired, gid, groupVars, stopped>>

\* Shutdown has waited for five minutes: the session is leaked.
ShutdownTimeout(t, s) ==
    /\ th[t].at = "shutdown" /\ s \in th[t].todo /\ ref[s] > 0 /\ Timed(t)
    /\ obj' = [obj EXCEPT ![s] = "leaked"]
    /\ th' = [th EXCEPT ![t].todo = @ \ {s}]
    /\ UNCHANGED <<sessions, ref, expired, gid, groupVars, stopped>>

\* All done: back to what the thread was doing.
Deleted(t) ==
    /\ th[t].at = "shutdown" /\ th[t].todo = {}
    /\ Goto(t, IF th[t].held = None THEN "idle" ELSE "work")
    /\ UNCHANGED <<sessions, obj, ref, expired, gid, groupVars, stopped>>

\* ~ECSession calls ReleaseSession, which has two critical sections ...
Release(t) ==
    /\ th[t].at = "release"
    /\ LET s == th[t].s IN members' = [members EXCEPT ![group[s]] = @ \ {s}]
    /\ Goto(t, "unsubscribe")
    /\ UNCHANGED <<sessions, obj, ref, expired, gid, group, groups, gobj, stopped>>

\* ... in the second it drops the subscriptions of the session.
ReleaseSubscriptions(t) ==
    /\ th[t].at = "unsubscribe"
    /\ Goto(t, "orphan")
    /\ UNCHANGED <<sessions, obj, ref, expired, gid, groupVars, stopped>>

\* DeleteIfOrphaned reads the id of the group; from a group that is deleted, anything.
OrphanId(t) ==
    /\ th[t].at = "orphan"
    /\ \E id \in IF gobj[group[th[t].s]] = "freed" THEN Gids \cup {NoGid} ELSE {gid[th[t].s]} :
           th' = [th EXCEPT ![t] = [@ EXCEPT !.at = "orphanLock", !.id = id]]
    /\ UNCHANGED <<sessions, obj, ref, expired, gid, groupVars, stopped>>

\* The ECSession is gone; the next one follows.
SessionFreed(t) ==
    /\ obj' = [obj EXCEPT ![th[t].s] = "freed"]
    /\ th' = [th EXCEPT ![t] = [@ EXCEPT !.at = "shutdown", !.s = None, !.id = NoGid]]

\* Mutant: a group is deleted as soon as one of its sessions ends.
DeleteAnyway(t) ==
    /\ th[t].at = "orphanLock"
    /\ LET g == th[t].id
           o == IF g = NoGid THEN group[th[t].s] ELSE groups[g]
       IN  /\ gobj' = IF o = None THEN gobj ELSE [gobj EXCEPT ![o] = "freed"]
           /\ groups' = IF g = NoGid THEN groups ELSE [groups EXCEPT ![g] = None]
    /\ SessionFreed(t)
    /\ UNCHANGED <<sessions, ref, expired, gid, group, members, stopped>>

\* Mutant: an orphan stays on the list, for the next logon of its group.
DeleteNever(t) ==
    /\ th[t].at = "orphanLock"
    /\ SessionFreed(t)
    /\ UNCHANGED <<sessions, ref, expired, gid, groupVars, stopped>>

\* With the group list locked for writing: the group that has that id is taken off the
\* list and deleted if no session is left in it.  A group without id is just deleted.
DeleteIfOrphaned(t) ==
    /\ th[t].at = "orphanLock"
    /\ LET g == th[t].id
           o == IF g = NoGid THEN group[th[t].s] ELSE groups[g]
           orphan == o # None /\ (g = NoGid \/ members[o] = {})
       IN  /\ gobj' = IF orphan THEN [gobj EXCEPT ![o] = "freed"] ELSE gobj
           /\ groups' = IF orphan /\ g # NoGid THEN [groups EXCEPT ![g] = None] ELSE groups
    /\ SessionFreed(t)
    /\ UNCHANGED <<sessions, ref, expired, gid, group, members, stopped>>

-------------------------------------------------------------------------------
Delete(t) ==
    \/ \E s \in Sids : Shutdown(t, s) \/ ShutdownTimeout(t, s)
    \/ Deleted(t) \/ Release(t) \/ ReleaseSubscriptions(t) \/ OrphanId(t) \/ DeleteIfOrphaned(t)

\* What a thread does in the middle of a request.
Continue(t) ==
    \/ LogonUpgrade(t) \/ Register(t) \/ RegisterFails(t)
    \/ Finish(t) \/ RemoveBusyState(t) \/ BusyStateRemoved(t)
    \/ Logoff(t) \/ RemoveSession(t) \/ CancelAllSessions(t) \/ Delete(t)

AllDone ==
    stopped /\ sessions = {} /\ (\A t \in Threads : th[t] = Idle) /\ UNCHANGED vars

Next ==
    \/ \E t \in Threads : Continue(t)
    \/ \E t \in Workers, s \in Sids :
          ValidateSession(t, s) \/ \E g \in Gids \cup {NoGid} : LogonFind(t, s, g)
    \/ \E s \in Sids : Expire(s)
    \/ Clean \/ RemoveAllSessions \/ AllDone

Spec == Init /\ [][Next]_vars

\* A thread that is in the middle of something goes on with it.  Clients need not do
\* anything, and the server need not be stopped.
FairSpec == Spec /\ \A t \in Threads : WF_vars(Continue(t))

-------------------------------------------------------------------------------
(* Properties                                                              *)

\* "when a session is returned, it is guaranteed not to be deleted by another thread":
\* a session that a thread has locked exists, and the thread is counted.
LockedSessionExists ==
    /\ \A t \in Threads : th[t].held # None => obj[th[t].held] \in {"live", "leaked"}
    /\ \A s \in Sids : ref[s] = Cardinality({t \in Threads : th[t].held = s})

\* "We know for sure that no other thread is attempting to remove the session at this
\* time": a session that is on the map is not being deleted, and at most one thread
\* deletes a session that has been taken off.
DeletedOnce ==
    LET Deletes(t, s) ==
            \/ s \in th[t].todo
            \/ th[t].s = s /\ th[t].at \in {"release", "unsubscribe", "orphan", "orphanLock"}
    IN \A s \in Sids :
          /\ \A t, u \in Threads : Deletes(t, s) /\ Deletes(u, s) => t = u
          /\ s \in sessions => obj[s] = "live" /\ ~\E t \in Threads : Deletes(t, s)

\* The group of a session exists and counts it for as long as the session can be used,
\* whatever other sessions of the group do: a call never finds its group deleted.
SessionKeepsGroup ==
    \A s \in Sids :
        \/ s \in sessions
        \/ \E t \in Threads :
              \/ th[t].held = s \/ s \in th[t].todo
              \/ th[t].s = s /\ th[t].at \in {"register", "release"}
        => gobj[group[s]] = "live" /\ s \in members[group[s]]

\* The list of groups holds no deleted group, and an empty one only until the thread that
\* ended its last session comes to DeleteIfOrphaned.
ListedGroupHasOwner ==
    \A g \in Gids : groups[g] # None =>
        /\ gobj[groups[g]] = "live"
        /\ \/ members[groups[g]] # {}
           \/ \E t \in Threads : th[t].at \in {"unsubscribe", "orphan", "orphanLock"}
                                 /\ group[th[t].s] = groups[g]

\* A session that has been taken off the map does not stay for ever: it is deleted, or
\* leaked on purpose after five minutes.
RemovedSessionGoes ==
    \A s \in Sids : (s \notin sessions /\ obj[s] = "live") ~> obj[s] \in {"freed", "leaked"}

\* "Check if the SessionGroup actually exists, if it doesn't just return without error": a
\* session that ends does not touch its group after another session has deleted it.
NoDeletedGroupUsed ==
    \A t \in Threads : th[t].at \in {"unsubscribe", "orphan"} => gobj[group[th[t].s]] = "live"

===============================================================================
