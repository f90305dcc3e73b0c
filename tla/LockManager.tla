------------------------------ MODULE LockManager ------------------------------
(***************************************************************************)
(* Locks on messages: ECLockManager, and the ECObjectLock handles that an  *)
(* ECSession keeps for the locks it asked for.                             *)
(*                                                                         *)
(* The manager maps an object to the session that has it locked.  The      *)
(* handle releases the lock when it is destroyed, so that a session that   *)
(* ends, for whatever reason, leaves no lock behind.  A client learns of   *)
(* its locks only through the results of setLockState.                     *)
(***************************************************************************)
EXTENDS FiniteSets

CONSTANTS
    Sessions,   \* session ids; an id is drawn once
    Objects,    \* messages
    NoSession   \* no entry in the manager's map

ASSUME NoSessionAssumption == NoSession \notin Sessions

VARIABLES
    locks,      \* ECLockManager::m_mapLocks
    handles,    \* ECSession::m_mapLocks, per session
    session,    \* the life of a session: "new", "live", "ending", "gone"
    told,       \* objects that the client was last told it has locked
    refused     \* objects for which the session has ever been refused a lock

vars == <<locks, handles, session, told, refused>>

TypeOK ==
    /\ locks \in [Objects -> Sessions \cup {NoSession}]
    /\ handles \in [Sessions -> SUBSET Objects]
    /\ session \in [Sessions -> {"new", "live", "ending", "gone"}]
    /\ told \in [Sessions -> SUBSET Objects]
    /\ refused \in [Sessions -> SUBSET Objects]

Init ==
    /\ locks = [o \in Objects |-> NoSession]
    /\ handles = [s \in Sessions |-> {}]
    /\ session = [s \in Sessions |-> "new"]
    /\ told = [s \in Sessions |-> {}]
    /\ refused = [s \in Sessions |-> {}]

Logon(s) ==
    /\ session[s] = "new"
    /\ session' = [session EXCEPT ![s] = "live"]
    /\ UNCHANGED <<locks, handles, told, refused>>

-------------------------------------------------------------------------------
(* setLockState(TRUE).  ECSession::LockObject works under m_hLocksLock of  *)
(* the session and calls the manager, under m_hRwLock, from there.         *)

\* The session has a handle for the object already: the manager is not asked.
LockAgain(s, o) ==
    /\ session[s] = "live" /\ o \in handles[s]
    /\ told' = [told EXCEPT ![s] = @ \cup {o}]
    /\ UNCHANGED <<locks, handles, session, refused>>

\* Mutant: the entry of another session is overwritten.
LockSteals(s, o) ==
    /\ session[s] = "live" /\ o \notin handles[s]
    /\ locks' = [locks EXCEPT ![o] = s]
    /\ handles' = [handles EXCEPT ![s] = @ \cup {o}]
    /\ told' = [told EXCEPT ![s] = @ \cup {o}]
    /\ UNCHANGED <<session, refused>>

\* Mutant: the entry is made with the object's id in place of the session's.
LockSwapped(s, o) ==
    /\ session[s] = "live" /\ o \notin handles[s]
    /\ locks[o] \in {NoSession, s}
    /\ locks' = [locks EXCEPT ![o] = o]
    /\ handles' = [handles EXCEPT ![s] = @ \cup {o}]
    /\ told' = [told EXCEPT ![s] = @ \cup {o}]
    /\ UNCHANGED <<session, refused>>

\* Nobody has the object locked: the manager inserts the entry and makes the handle.
LockGranted(s, o) ==
    /\ session[s] = "live" /\ o \notin handles[s]
    /\ locks[o] \in {NoSession, s}
    /\ locks' = [locks EXCEPT ![o] = s]
    /\ handles' = [handles EXCEPT ![s] = @ \cup {o}]
    /\ told' = [told EXCEPT ![s] = @ \cup {o}]
    /\ UNCHANGED <<session, refused>>

\* Another session has: ZARAFA_E_NO_ACCESS (the client gets ZARAFA_E_SUBMITTED), but the
\* handle is made all the same and stays in the map of the session.
LockRefused(s, o) ==
    /\ session[s] = "live" /\ o \notin handles[s]
    /\ locks[o] \notin {NoSession, s}
    /\ handles' = [handles EXCEPT ![s] = @ \cup {o}]
    /\ refused' = [refused EXCEPT ![s] = @ \cup {o}]
    /\ UNCHANGED <<locks, session, told>>

-------------------------------------------------------------------------------
(* Releasing a lock.                                                       *)

\* Mutant: the manager does not compare the session.
ErasesAny(s, o) == IF locks[o] # NoSession THEN [locks EXCEPT ![o] = NoSession] ELSE locks

\* ECLockManager::UnlockObject erases the entry only for the session that owns it.
ManagerUnlock(s, o) == IF locks[o] = s THEN [locks EXCEPT ![o] = NoSession] ELSE locks

\* setLockState(FALSE): without a handle there is nothing to do; the handle is dropped if
\* the manager released the lock, and kept if it returned an error.
UnlockObject(s, o) ==
    /\ session[s] = "live"
    /\ told' = [told EXCEPT ![s] = @ \ {o}]
    /\ IF o \in handles[s]
       THEN /\ locks' = ManagerUnlock(s, o)
            /\ handles' = IF locks[o] = s THEN [handles EXCEPT ![s] = @ \ {o}] ELSE handles
       ELSE UNCHANGED <<locks, handles>>
    /\ UNCHANGED <<session, refused>>

-------------------------------------------------------------------------------
(* The end of a session: ~ECSession, when no thread works for it any more. *)

EndSession(s) ==
    /\ session[s] = "live"
    /\ session' = [session EXCEPT ![s] = "ending"]
    /\ UNCHANGED <<locks, handles, told, refused>>

\* Mutant: a handle that is destroyed forgets the lock.
HandleForgotten(s, o) ==
    /\ session[s] = "ending" /\ o \in handles[s]
    /\ handles' = [handles EXCEPT ![s] = @ \ {o}]
    /\ UNCHANGED <<locks, session, told, refused>>

\* The map of handles is destroyed, handle by handle; ~ECObjectLockImpl unlocks.
HandleDestroyed(s, o) ==
    /\ session[s] = "ending" /\ o \in handles[s]
    /\ locks' = ManagerUnlock(s, o)
    /\ handles' = [handles EXCEPT ![s] = @ \ {o}]
    /\ UNCHANGED <<session, told, refused>>

SessionGone(s) ==
    /\ session[s] = "ending" /\ handles[s] = {}
    /\ session' = [session EXCEPT ![s] = "gone"]
    /\ UNCHANGED <<locks, handles, told, refused>>

AllGone == (\A s \in Sessions : session[s] = "gone") /\ UNCHANGED vars

LockObject(s, o) == LockAgain(s, o) \/ LockGranted(s, o) \/ LockRefused(s, o)

Next ==
    \/ \E s \in Sessions : Logon(s) \/ EndSession(s) \/ SessionGone(s)
    \/ \E s \in Sessions, o \in Objects :
          LockObject(s, o) \/ UnlockObject(s, o) \/ HandleDestroyed(s, o)
    \/ AllGone

Spec == Init /\ [][Next]_vars

-------------------------------------------------------------------------------
(* Properties                                                              *)

\* The check in loadObject: a message that another session has locked cannot be opened.
MayOpen(s, o) == locks[o] \in {NoSession, s}

\* A lock never outlives its session: each entry of the manager belongs to a session that
\* exists and that has the handle which will release it.
LockHasHandle ==
    \A o \in Objects : locks[o] # NoSession =>
        o \in handles[locks[o]] /\ session[locks[o]] \in {"live", "ending"}

\* As long as a session has never been refused the lock on an object, what setLockState
\* told its client is true: it has the lock, whatever other sessions ask for, release or
\* leave behind when they end.
GrantedIsOwner ==
    \A s \in Sessions, o \in Objects :
        session[s] = "live" /\ o \in told[s] \ refused[s] => locks[o] = s

\* A lock passes from one session to another only by way of being released, and then the
\* session that had it has dropped its handle: no step of another session takes it away.
LockNotTakenAway ==
    [][\A o \in Objects :
          locks[o] # NoSession /\ locks'[o] # locks[o] =>
              locks'[o] = NoSession /\ o \notin handles'[locks[o]]]_vars

\* "If the object is locked on another session, access should be denied": a client that was
\* told that it has the lock can open the message, so no other session has it locked.
TheLockGivesAccess ==
    \A s \in Sessions, o \in Objects :
        session[s] = "live" /\ o \in told[s] => MayOpen(s, o)

===============================================================================
