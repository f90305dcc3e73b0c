------------------------ MODULE SessionResourcesProofs ------------------------
(***************************************************************************)
(* First the lock manager: no lock outlives its session, none is taken     *)
(* away by another session, and what a session that was never refused has  *)
(* been told about its locks is true.  Then the session with its           *)
(* subscriptions and its group, which still implements the lock manager:   *)
(* what is proved of the locks holds of the composition, for any number of *)
(* sessions, groups, connections and objects.                              *)
(*                                                                         *)
(* Then the subscriptions, in four layers, each of which needs the ones    *)
(* before it: which group a session is in and which subscriptions it has   *)
(* there (Structure); that the manager's routes are as many as the groups  *)
(* will take back (RouteInv); that a group has an entry for each           *)
(* subscription that was confirmed (EntryInv); and that a group for which  *)
(* a change is due will still be asked (PubInv).                           *)
(***************************************************************************)
EXTENDS SessionResources, FiniteSetTheorems, WellFoundedInduction, TLAPS

-------------------------------------------------------------------------------
(* The lock manager.                                                       *)

\* A handle that was not made by a refused request stands for a lock of its session ...
HandleIsLock ==
    \A s \in Sessions, o \in Objects : o \in handles[s] \ refused[s] => locks[o] = s

\* ... and as long as the session works, the client's view is backed by a handle.
ToldHasHandle ==
    \A s \in Sessions, o \in Objects :
        session[s] \in {"new", "live"} /\ o \in told[s] \ refused[s] => o \in handles[s]

\* The inductive invariant.
IInv == TypeOK /\ LockHasHandle /\ HandleIsLock /\ ToldHasHandle

\* The step Logon: a session begins without locks.
LEMMA LogonInv ==
    ASSUME IInv, NEW s \in Sessions, Logon(s)
    PROVE  IInv'
<1> USE NoSessionAssumption DEF Logon
<1>1. TypeOK'
    BY DEF IInv, TypeOK
<1>2. LockHasHandle'
    BY DEF IInv, TypeOK, LockHasHandle, HandleIsLock
<1>3. HandleIsLock'
    BY DEF IInv, TypeOK, LockHasHandle, HandleIsLock
<1>4. ToldHasHandle'
    BY DEF IInv, TypeOK, ToldHasHandle
<1> QED BY <1>1, <1>2, <1>3, <1>4 DEF IInv

\* The step LockAgain: the client is told again.
LEMMA LockAgainInv ==
    ASSUME IInv, NEW s \in Sessions, NEW o \in Objects, LockAgain(s, o)
    PROVE  IInv'
<1> USE NoSessionAssumption DEF LockAgain
<1>1. TypeOK'
    BY DEF IInv, TypeOK
<1>2. LockHasHandle'
    BY DEF IInv, TypeOK, LockHasHandle, HandleIsLock
<1>3. HandleIsLock'
    BY DEF IInv, TypeOK, LockHasHandle, HandleIsLock
<1>4. ToldHasHandle'
    BY DEF IInv, TypeOK, ToldHasHandle
<1> QED BY <1>1, <1>2, <1>3, <1>4 DEF IInv

\* The step LockGranted: entry and handle are made together.
LEMMA LockGrantedInv ==
    ASSUME IInv, NEW s \in Sessions, NEW o \in Objects, LockGranted(s, o)
    PROVE  IInv'
<1> USE NoSessionAssumption DEF LockGranted
<1>1. TypeOK'
    BY DEF IInv, TypeOK
<1>2. LockHasHandle'
    BY DEF IInv, TypeOK, LockHasHandle, HandleIsLock
<1>3. HandleIsLock'
    BY DEF IInv, TypeOK, LockHasHandle, HandleIsLock
<1>4. ToldHasHandle'
    BY DEF IInv, TypeOK, ToldHasHandle
<1> QED BY <1>1, <1>2, <1>3, <1>4 DEF IInv

\* The step LockRefused: the handle that is left behind is that of a refused request.
LEMMA LockRefusedInv ==
    ASSUME IInv, NEW s \in Sessions, NEW o \in Objects, LockRefused(s, o)
    PROVE  IInv'
<1> USE NoSessionAssumption DEF LockRefused
<1>1. TypeOK'
    BY DEF IInv, TypeOK
<1>2. LockHasHandle'
    BY DEF IInv, TypeOK, LockHasHandle, HandleIsLock
<1>3. HandleIsLock'
    BY DEF IInv, TypeOK, LockHasHandle, HandleIsLock
<1>4. ToldHasHandle'
    BY DEF IInv, TypeOK, ToldHasHandle
<1> QED BY <1>1, <1>2, <1>3, <1>4 DEF IInv

\* The step UnlockObject: entry and handle go together, or both stay.
LEMMA UnlockObjectInv ==
    ASSUME IInv, NEW s \in Sessions, NEW o \in Objects, UnlockObject(s, o)
    PROVE  IInv'
<1> USE NoSessionAssumption DEF UnlockObject, ManagerUnlock
<1>1. TypeOK'
    BY DEF IInv, TypeOK
<1>2. LockHasHandle'
    BY DEF IInv, TypeOK, LockHasHandle, HandleIsLock
<1>3. HandleIsLock'
    BY DEF IInv, TypeOK, LockHasHandle, HandleIsLock
<1>4. ToldHasHandle'
    BY DEF IInv, TypeOK, ToldHasHandle
<1> QED BY <1>1, <1>2, <1>3, <1>4 DEF IInv

\* The step EndSession: the locks stay until the handles are destroyed.
LEMMA EndSessionInv ==
    ASSUME IInv, NEW s \in Sessions, EndSession(s)
    PROVE  IInv'
<1> USE NoSessionAssumption DEF EndSession
<1>1. TypeOK'
    BY DEF IInv, TypeOK
<1>2. LockHasHandle'
    BY DEF IInv, TypeOK, LockHasHandle, HandleIsLock
<1>3. HandleIsLock'
    BY DEF IInv, TypeOK, LockHasHandle, HandleIsLock
<1>4. ToldHasHandle'
    BY DEF IInv, TypeOK, ToldHasHandle
<1> QED BY <1>1, <1>2, <1>3, <1>4 DEF IInv

\* The step HandleDestroyed: a destroyed handle releases only a lock of its own session.
LEMMA HandleDestroyedInv ==
    ASSUME IInv, NEW s \in Sessions, NEW o \in Objects, HandleDestroyed(s, o)
    PROVE  IInv'
<1> USE NoSessionAssumption DEF HandleDestroyed, ManagerUnlock
<1>1. TypeOK'
    BY DEF IInv, TypeOK
<1>2. LockHasHandle'
    BY DEF IInv, TypeOK, LockHasHandle, HandleIsLock
<1>3. HandleIsLock'
    BY DEF IInv, TypeOK, LockHasHandle, HandleIsLock
<1>4. ToldHasHandle'
    BY DEF IInv, TypeOK, ToldHasHandle
<1> QED BY <1>1, <1>2, <1>3, <1>4 DEF IInv

\* The step SessionGone: without handles there are no locks.
LEMMA SessionGoneInv ==
    ASSUME IInv, NEW s \in Sessions, SessionGone(s)
    PROVE  IInv'
<1> USE NoSessionAssumption DEF SessionGone
<1>1. TypeOK'
    BY DEF IInv, TypeOK
<1>2. LockHasHandle'
    BY DEF IInv, TypeOK, LockHasHandle, HandleIsLock
<1>3. HandleIsLock'
    BY DEF IInv, TypeOK, LockHasHandle, HandleIsLock
<1>4. ToldHasHandle'
    BY DEF IInv, TypeOK, ToldHasHandle
<1> QED BY <1>1, <1>2, <1>3, <1>4 DEF IInv

\* Every step of LockObject, UnlockObject and the end of a session keeps the invariant.
LEMMA NextInv == IInv /\ [Next]_vars => IInv'
<1> SUFFICES ASSUME IInv, [Next]_vars PROVE IInv'
    OBVIOUS
<1>1. CASE \E s \in Sessions : Logon(s)
    BY <1>1, LogonInv
<1>2. CASE \E s \in Sessions, o \in Objects : LockAgain(s, o)
    BY <1>2, LockAgainInv
<1>3. CASE \E s \in Sessions, o \in Objects : LockGranted(s, o)
    BY <1>3, LockGrantedInv
<1>4. CASE \E s \in Sessions, o \in Objects : LockRefused(s, o)
    BY <1>4, LockRefusedInv
<1>5. CASE \E s \in Sessions, o \in Objects : UnlockObject(s, o)
    BY <1>5, UnlockObjectInv
<1>6. CASE \E s \in Sessions : EndSession(s)
    BY <1>6, EndSessionInv
<1>7. CASE \E s \in Sessions, o \in Objects : HandleDestroyed(s, o)
    BY <1>7, HandleDestroyedInv
<1>8. CASE \E s \in Sessions : SessionGone(s)
    BY <1>8, SessionGoneInv
<1>9. CASE UNCHANGED vars
    BY <1>9, NoSessionAssumption
    DEF vars, IInv, TypeOK, LockHasHandle, HandleIsLock, ToldHasHandle
<1> QED BY <1>1, <1>2, <1>3, <1>4, <1>5, <1>6, <1>7, <1>8, <1>9 DEF Next, LockObject, AllGone

\* The bookkeeping of locks and handles is consistent in every reachable state.
THEOREM LockInvariant == Spec => []IInv
<1>1. Init => IInv
    BY NoSessionAssumption
    DEF Init, IInv, TypeOK, LockHasHandle, HandleIsLock, ToldHasHandle
<1> QED BY <1>1, NextInv, PTL DEF Spec

\* No entry of the lock manager outlives the session that owns it (~ECObjectLockImpl).
THEOREM LocksEndWithSession == Spec => []LockHasHandle
<1>1. IInv => LockHasHandle
    BY DEF IInv
<1> QED BY <1>1, LockInvariant, PTL

\* What setLockState told a session that was never refused a lock is true.
THEOREM GrantedLocksAreOwned == Spec => []GrantedIsOwner
<1>1. IInv => GrantedIsOwner
    BY DEF IInv, TypeOK, HandleIsLock, ToldHasHandle, GrantedIsOwner
<1> QED BY <1>1, LockInvariant, PTL

\* No step of LockObject, UnlockObject or ~ECSession takes away the lock of another session.
THEOREM LocksNotTakenAway == Spec => LockNotTakenAway
<1> DEFINE Kept ==
        \A o \in Objects : locks[o] # NoSession /\ locks'[o] # locks[o] =>
            locks'[o] = NoSession /\ o \notin handles'[locks[o]]
<1>1. IInv /\ [Next]_vars => [Kept]_vars
    <2> SUFFICES ASSUME IInv, Next PROVE Kept
        OBVIOUS
    <2> USE NoSessionAssumption DEF IInv, TypeOK
    <2>1. CASE \E s \in Sessions : Logon(s)
        BY <2>1 DEF Logon
    <2>2. CASE \E s \in Sessions, o \in Objects : LockAgain(s, o)
        BY <2>2 DEF LockAgain
    <2>3. CASE \E s \in Sessions, o \in Objects : LockGranted(s, o)
        BY <2>3 DEF LockGranted
    <2>4. CASE \E s \in Sessions, o \in Objects : LockRefused(s, o)
        BY <2>4 DEF LockRefused
    <2>5. CASE \E s \in Sessions, o \in Objects : UnlockObject(s, o)
        BY <2>5 DEF UnlockObject, ManagerUnlock
    <2>6. CASE \E s \in Sessions : EndSession(s)
        BY <2>6 DEF EndSession
    <2>7. CASE \E s \in Sessions, o \in Objects : HandleDestroyed(s, o)
        BY <2>7 DEF HandleDestroyed, ManagerUnlock
    <2>8. CASE \E s \in Sessions : SessionGone(s)
        BY <2>8 DEF SessionGone
    <2>9. CASE AllGone
        BY <2>9 DEF AllGone, vars
    <2> QED BY <2>1, <2>2, <2>3, <2>4, <2>5, <2>6, <2>7, <2>8, <2>9 DEF Next, LockObject
<1> QED BY <1>1, LockInvariant, PTL DEF Spec, LockNotTakenAway

-------------------------------------------------------------------------------
(* The composition.                                                        *)

\* What a session does: its logon, its calls of setLockState, the beginning and the end of
\* its deletion and the destruction of a handle are steps of the lock manager.  The other
\* steps do not touch the locks.
LEMMA SessionStepRefines ==
    ASSUME NEW s \in Sessions, SessionStep(s)
    PROVE  [Next]_vars
<1>1. CASE LogonSession(s)
    BY <1>1 DEF LogonSession, Next
<1>2. CASE \E c \in Conns, i \in Interests : AddAdvise(s, c, i)
    BY <1>2 DEF AddAdvise
<1>3. CASE AddRoute(s) \/ AddEntry(s)
    BY <1>3 DEF AddRoute, AddEntry
<1>4. CASE \E c \in Conns : DelAdvise(s, c)
    BY <1>4 DEF DelAdvise
<1>5. CASE StartEnd(s)
    BY <1>5 DEF StartEnd, Next
<1>6. CASE ReleaseSession(s) \/ DeleteIfOrphaned(s) \/ DeleteGroup(s)
    BY <1>6 DEF ReleaseSession, DeleteIfOrphaned, DeleteGroup
<1>7. CASE \E o \in Objects : LockSteps(s, o)
    <2>1. PICK o \in Objects : LockSteps(s, o)
        BY <1>7
    <2> QED BY <2>1 DEF LockSteps, Next
<1>8. CASE Gone(s)
    BY <1>8 DEF Gone, Next
<1> QED BY <1>1, <1>2, <1>3, <1>4, <1>5, <1>6, <1>7, <1>8 DEF SessionStep

\* A thread in AddNotification leaves the locks alone.
LEMMA PublishingRefines == Publishing => UNCHANGED vars
BY DEF Publishing, Publish, Deliver, Published

\* Every behaviour of the composition is one of the lock manager: subscribing, routing and
\* the order in which ~ECSession gives back what the session had add nothing to the locks.
THEOREM ResourcesImplementLocks == ResourcesSpec => Spec
<1>1. ResourcesInit => Init
    BY DEF ResourcesInit
<1>2. [ResourcesNext]_allVars => [Next]_vars
    <2> SUFFICES ASSUME [ResourcesNext]_allVars PROVE [Next]_vars
        OBVIOUS
    <2>1. CASE \E s \in Sessions : SessionStep(s)
        BY <2>1, SessionStepRefines
    <2>2. CASE Publishing
        BY <2>2, PublishingRefines
    <2>3. CASE UNCHANGED allVars
        BY <2>3 DEF allVars
    <2> QED BY <2>1, <2>2, <2>3 DEF ResourcesNext
<1> QED BY <1>1, <1>2, PTL DEF ResourcesSpec, Spec

\* A session that is deleted by ~ECSession, after its subscriptions and perhaps its group,
\* leaves no lock behind.
THEOREM DeletedSessionLeavesNoLock == ResourcesSpec => []LockHasHandle
BY ResourcesImplementLocks, LocksEndWithSession, PTL

\* What setLockState has told a session stays true while other sessions of the group
\* subscribe, end and are deleted.
THEOREM OwnerKeepsLock == ResourcesSpec => []GrantedIsOwner
BY ResourcesImplementLocks, GrantedLocksAreOwned, PTL


-------------------------------------------------------------------------------
(* Subscriptions: the states and their invariant.                          *)

Events == {"object", "newmail"}
Subscription == [conn : Conns, s : Sessions, key : Keys, mask : SUBSET Events]
AskStates == [at : {"route", "enter"}, conn : Conns, key : Keys]
EndStates == [at : {"release", "orphan", "locks"}]
DeleteStates == [at : {"delete"}, group : Sessions]
StepStates == {Idle} \cup AskStates \cup EndStates \cup DeleteStates
Registered ==
    [at : {"asked", "active"}, s : Sessions, key : Keys, mask : SUBSET Events,
     ignored : BOOLEAN]
Dropped == [at |-> "dropped"]
ClientStates == {Free, Dropped} \cup Registered
Publications ==
    [at : {"deliver"}, key : Keys, event : Events, todo : SUBSET GroupIds,
     want : SUBSET Conns]

\* What the variables of the sessions, groups and clients are.
ResourceTypes ==
    /\ session \in [Sessions -> {"new", "live", "ending", "gone"}]
    /\ groups \in [GroupIds -> Sessions \cup {NoSession}]
    /\ grp \in [Sessions -> Sessions \cup {NoSession}]
    /\ members \in [Sessions -> SUBSET Sessions]
    /\ subs \in [Sessions -> SUBSET Subscription]
    /\ step \in [Sessions -> StepStates]
    /\ client \in [Conns -> ClientStates]

\* What ECSessionGroup and ECSessionManager count.
CountTypes ==
    /\ entries \in [Sessions -> [Keys -> Nat]]
    /\ routes \in [Stores -> [GroupIds -> Nat]]

\* A session has a group from its logon on, one with the id it asked for; what its thread
\* does fits its life.
LifeInv ==
    \A s \in Sessions :
        /\ session[s] = "new" => step[s] = Idle /\ grp[s] = NoSession /\ members[s] = {}
        /\ session[s] = "live" => step[s].at \in {"idle", "route", "enter"}
        /\ session[s] = "ending" => step[s].at \in {"release", "orphan", "delete", "locks"}
        /\ session[s] = "gone" => step[s].at = "locks"
        /\ session[s] # "new" => /\ grp[s] \in Sessions /\ GroupOf[grp[s]] = GroupOf[s]
                                 /\ session[grp[s]] # "new"

\* A session is in its group until ReleaseSession.
Joined(s) == session[s] = "live" \/ step[s].at = "release"

\* A group that has sessions is the one that its id leads to; one that is being deleted has
\* none and is not on the list.
GroupInv ==
    /\ \A s, o \in Sessions : s \in members[o] <=> grp[s] = o /\ Joined(s)
    /\ \A o \in Sessions : members[o] # {} => groups[GroupOf[o]] = o
    /\ \A g \in GroupIds :
          groups[g] # NoSession => GroupOf[groups[g]] = g /\ session[groups[g]] # "new"
    /\ \A s \in Sessions : step[s].at = "delete" =>
          /\ GroupOf[step[s].group] = GroupOf[s] /\ members[step[s].group] = {}
          /\ session[step[s].group] # "new" /\ groups[GroupOf[s]] # step[s].group

\* The client counts on the connection, or will when its call returns.
Asking(c) == client[c].at \in {"asked", "active"}
SubOf(c) ==
    [conn |-> c, s |-> client[c].s, key |-> client[c].key, mask |-> client[c].mask]

\* The group has a subscription for a session that goes on exactly if the client thinks so.
SubsInv ==
    /\ \A o \in Sessions : \A m \in subs[o] :
          /\ m.s \in members[o]
          /\ session[m.s] = "live" =>
                Asking(m.conn) /\ m = SubOf(m.conn) /\ ~client[m.conn].ignored
          /\ \A n \in subs[o] : m.conn = n.conn => m = n
    /\ \A c \in Conns : Asking(c) /\ ~client[c].ignored /\ session[client[c].s] = "live" =>
          SubOf(c) \in subs[grp[client[c].s]]

\* A call of AddAdvise under way is the one that the client waits for.
AskInv ==
    /\ \A s \in Sessions : step[s].at \in {"route", "enter"} =>
          LET c == step[s].conn IN
          client[c].at = "asked" /\ client[c].s = s /\ client[c].key = step[s].key
    /\ \A c \in Conns : client[c].at = "asked" =>
          LET s == client[c].s IN step[s].at \in {"route", "enter"} /\ step[s].conn = c
    /\ \A c \in Conns : Asking(c) => session[client[c].s] # "new"

Structure == ResourceTypes /\ LifeInv /\ GroupInv /\ SubsInv /\ AskInv

\* What Structure is about.
lifeVars == <<session, groups, grp, members, subs, step, client>>

\* At the start nothing is held.
LEMMA StructureInit == ResourcesInit => Structure /\ CountTypes
<1> SUFFICES ASSUME ResourcesInit PROVE Structure /\ CountTypes
    OBVIOUS
<1> USE DEF ResourcesInit, Init, SubsInit
<1>1. ResourceTypes
    BY DEF ResourceTypes, StepStates, ClientStates
<1>2. CountTypes
    BY DEF CountTypes
<1>3. \A s \in Sessions : step[s].at = "idle"
    BY DEF Idle
<1>4. \A c \in Conns : client[c].at = "free"
    BY DEF Free
<1>5. LifeInv /\ GroupInv
    BY <1>3, GroupOfAssumption, NoSessionAssumption DEF LifeInv, GroupInv, Joined
<1>6. SubsInv /\ AskInv
    BY <1>3, <1>4 DEF SubsInv, AskInv, Asking
<1> QED BY <1>1, <1>2, <1>5, <1>6 DEF Structure

\* What the places of a thread hold.
LEMMA StepFields ==
    ASSUME NEW x \in StepStates
    PROVE  /\ x.at = "idle" <=> x = Idle
           /\ x.at \in {"route", "enter"} => x \in AskStates
           /\ x.at \in {"release", "orphan", "locks"} => x \in EndStates
           /\ x.at = "delete" => x \in DeleteStates
BY DEF StepStates, AskStates, EndStates, DeleteStates, Idle

\* What the states of a connection hold.
LEMMA ClientFields ==
    ASSUME NEW x \in ClientStates
    PROVE  /\ x.at = "free" <=> x = Free
           /\ x.at = "dropped" <=> x = Dropped
           /\ x.at \in {"asked", "active"} <=> x \in Registered
BY DEF ClientStates, Registered, Free, Dropped

\* The step LogonSession: the session is in the group that its id leads to.
LEMMA StructureLogon ==
    ASSUME Structure, NEW s \in Sessions, LogonSession(s)
    PROVE  Structure'
<1> DEFINE g == GroupOf[s]
           o == IF groups[g] = NoSession THEN s ELSE groups[g]
<1>0. ResourceTypes /\ LifeInv /\ GroupInv /\ SubsInv /\ AskInv
    BY DEF Structure
<1>1. /\ session[s] = "new" /\ session' = [session EXCEPT ![s] = "live"]
      /\ groups' = [groups EXCEPT ![g] = o] /\ grp' = [grp EXCEPT ![s] = o]
      /\ members' = [members EXCEPT ![o] = @ \cup {s}]
      /\ UNCHANGED <<subs, step, client>>
    BY DEF LogonSession, Logon
<1>2. g \in GroupIds /\ o \in Sessions /\ GroupOf[o] = g /\ (o = s \/ session[o] # "new")
    BY <1>0, GroupOfAssumption DEF ResourceTypes, GroupInv
<1>3. ResourceTypes'
    BY <1>0, <1>1, <1>2 DEF ResourceTypes
<1>4. step[s] = Idle /\ step[s].at = "idle" /\ grp[s] = NoSession /\ members[s] = {}
    BY <1>0, <1>1 DEF LifeInv, Idle
<1>5. LifeInv'
    BY <1>0, <1>1, <1>2, <1>4, NoSessionAssumption DEF LifeInv, ResourceTypes
<1>6. \A x, p \in Sessions : x \in members'[p] <=> x \in members[p] \/ (x = s /\ p = o)
    BY <1>0, <1>1, <1>2 DEF ResourceTypes
<1>7. \A x \in Sessions : Joined(x)' <=> Joined(x) \/ x = s
    BY <1>0, <1>1 DEF Joined, ResourceTypes
<1>8. ~Joined(s)
    BY <1>1, <1>4 DEF Joined
<1>9. GroupInv'
  <2>1. \A x, p \in Sessions : x \in members'[p] <=> grp'[x] = p /\ Joined(x)'
      BY <1>0, <1>1, <1>2, <1>4, <1>6, <1>7, <1>8, NoSessionAssumption DEF GroupInv, ResourceTypes
  <2>2. \A p \in Sessions : members'[p] # {} => groups'[GroupOf[p]] = p
      BY <1>0, <1>1, <1>2, <1>6, GroupOfAssumption, NoSessionAssumption DEF GroupInv, ResourceTypes
  <2>3. \A h \in GroupIds : groups'[h] # NoSession =>
            GroupOf[groups'[h]] = h /\ session'[groups'[h]] # "new"
      BY <1>0, <1>1, <1>2 DEF GroupInv, ResourceTypes
  <2>4. ASSUME NEW x \in Sessions, step'[x].at = "delete"
        PROVE  /\ GroupOf[step'[x].group] = GroupOf[x] /\ members'[step'[x].group] = {}
               /\ session'[step'[x].group] # "new" /\ groups'[GroupOf[x]] # step'[x].group
    <3>1. step[x] \in DeleteStates
        BY <1>0, <1>1, <2>4, StepFields DEF ResourceTypes
    <3>2. step[x].group \in Sessions
        BY <3>1 DEF DeleteStates
    <3> QED BY <1>0, <1>1, <1>2, <1>4, <2>4, <3>2, GroupOfAssumption, NoSessionAssumption
            DEF GroupInv, ResourceTypes
  <2> QED BY <2>1, <2>2, <2>3, <2>4 DEF GroupInv
<1>10. SubsInv'
  <2>1. ASSUME NEW p \in Sessions, NEW m \in subs[p]
        PROVE  m.s \in Sessions /\ m.s # s
    <3>1. m.s \in Sessions
        BY <1>0 DEF ResourceTypes, Subscription
    <3> QED BY <1>0, <1>8, <3>1 DEF SubsInv, GroupInv
  <2>2. \A c \in Conns : Asking(c) => client[c].s # s
      BY <1>0, <1>1 DEF AskInv
  <2>3. \A p \in Sessions : \A m \in subs'[p] :
            /\ m.s \in members'[p]
            /\ session'[m.s] = "live" =>
                  Asking(m.conn)' /\ m = SubOf(m.conn)' /\ ~client'[m.conn].ignored
            /\ \A n \in subs'[p] : m.conn = n.conn => m = n
      BY <1>0, <1>1, <1>6, <2>1 DEF SubsInv, Asking, SubOf, ResourceTypes
  <2>4. \A c \in Conns :
            Asking(c)' /\ ~client'[c].ignored /\ session'[client'[c].s] = "live" =>
                SubOf(c)' \in subs'[grp'[client'[c].s]]
      BY <1>0, <1>1, <2>2 DEF SubsInv, Asking, SubOf, ResourceTypes
  <2> QED BY <2>3, <2>4 DEF SubsInv
<1>11. AskInv'
    BY <1>0, <1>1 DEF AskInv, Asking, ResourceTypes
<1> QED BY <1>3, <1>5, <1>9, <1>10, <1>11 DEF Structure

\* The step AddAdvise: the client asks, and the group has the subscription or keeps an older one.
LEMMA StructureAddAdvise ==
    ASSUME Structure, NEW s \in Sessions, NEW c \in Conns, NEW i \in Interests, AddAdvise(s, c, i)
    PROVE  Structure'
<1> DEFINE o == grp[s]
           old == {m \in subs[o] : m.conn = c}
           new == [conn |-> c, s |-> s, key |-> i.key, mask |-> i.mask]
<1>0. ResourceTypes /\ LifeInv /\ GroupInv /\ SubsInv /\ AskInv
    BY DEF Structure
<1>1. /\ session[s] = "live" /\ step[s] = Idle /\ MayRegister(s, c, i)
      /\ subs' = IF old # {} THEN subs ELSE [subs EXCEPT ![o] = @ \cup {new}]
      /\ client' = [client EXCEPT ![c] =
                       [at |-> IF Routed(i.mask) THEN "asked" ELSE "active", s |-> s,
                        key |-> i.key, mask |-> i.mask, ignored |-> old # {}]]
      /\ step' = IF ~Routed(i.mask) THEN step
                 ELSE [step EXCEPT ![s] = [at |-> "route", conn |-> c, key |-> i.key]]
      /\ UNCHANGED <<session, groups, grp, members>>
    BY DEF AddAdvise, Calls, vars
<1>2. o \in Sessions /\ i.key \in Keys /\ i.mask \in SUBSET Events /\ s \in members[o]
    BY <1>0, <1>1, InterestsAssumption DEF LifeInv, GroupInv, Joined, Events
<1>3. step[s].at = "idle"
    BY <1>1 DEF Idle
<1>4. client[c].at # "asked" /\ (Asking(c) => session[client[c].s] # "live")
    BY <1>1 DEF MayRegister, Free, Asking
<1>5. \A p \in Sessions : \A x \in subs[p] : x.conn = c => session[x.s] # "live"
  <2> SUFFICES ASSUME NEW p \in Sessions, NEW x \in subs[p], x.conn = c, session[x.s] = "live"
               PROVE  FALSE
      OBVIOUS
  <2>1. Asking(c) /\ x = SubOf(c)
      BY <1>0 DEF SubsInv
  <2> QED BY <2>1, <1>4 DEF SubOf
<1>6. ResourceTypes'
  <2>1. new \in Subscription
      BY <1>2 DEF Subscription
  <2>2. client'[c] \in Registered
      BY <1>0, <1>1, <1>2 DEF Registered, ResourceTypes
  <2>3. client' \in [Conns -> ClientStates]
      BY <1>0, <1>1, <2>2 DEF ResourceTypes, ClientStates
  <2>4. step' \in [Sessions -> StepStates]
      BY <1>0, <1>1, <1>2 DEF ResourceTypes, StepStates, AskStates
  <2>5. subs' \in [Sessions -> SUBSET Subscription]
      BY <1>0, <1>1, <1>2, <2>1 DEF ResourceTypes
  <2> QED BY <1>0, <1>1, <2>3, <2>4, <2>5 DEF ResourceTypes
<1>7. /\ \A x \in Sessions : x # s => step'[x] = step[x]
      /\ step'[s].at \in {"idle", "route"}
    BY <1>0, <1>1, <1>3 DEF ResourceTypes
<1>8. LifeInv'
    BY <1>0, <1>1, <1>7 DEF LifeInv
<1>9. GroupInv'
    BY <1>0, <1>1, <1>3, <1>7 DEF GroupInv, Joined
<1>10. /\ \A x \in Conns : x # c => client'[x] = client[x]
       /\ client'[c] = [at |-> IF Routed(i.mask) THEN "asked" ELSE "active", s |-> s,
                        key |-> i.key, mask |-> i.mask, ignored |-> old # {}]
    BY <1>0, <1>1 DEF ResourceTypes
<1>11. \A p \in Sessions : \A x \in subs'[p] : x \in subs[p] \/ (p = o /\ x = new /\ old = {})
    BY <1>0, <1>1, <1>2 DEF ResourceTypes
<1>12. \A p \in Sessions : \A x \in subs[p] : x.conn \in Conns
    BY <1>0 DEF ResourceTypes, Subscription
<1>13. SubsInv'
  <2>1. ASSUME NEW p \in Sessions, NEW x \in subs'[p]
        PROVE  /\ x.s \in members'[p]
               /\ session'[x.s] = "live" =>
                     Asking(x.conn)' /\ x = SubOf(x.conn)' /\ ~client'[x.conn].ignored
    <3>1. CASE x \in subs[p]
        BY <1>0, <1>1, <1>5, <1>10, <1>12, <3>1 DEF SubsInv, Asking, SubOf
    <3>2. CASE p = o /\ x = new /\ old = {}
      <4>1. x.s = s /\ x.conn = c
          BY <3>2
      <4>2. client'[c].at \in {"asked", "active"} /\ client'[c].ignored = (old # {})
          BY <1>10
      <4>3. SubOf(c)' = new
          BY <1>10 DEF SubOf
      <4>4. ~client'[c].ignored
          BY <3>2, <4>2
      <4> QED BY <1>1, <1>2, <3>2, <4>1, <4>2, <4>3, <4>4 DEF Asking
    <3> QED BY <1>11, <3>1, <3>2
  <2>2. \A p \in Sessions : \A x, y \in subs'[p] : x.conn = y.conn => x = y
      BY <1>0, <1>11 DEF SubsInv
  <2>3. ASSUME NEW d \in Conns, Asking(d)', ~client'[d].ignored, session'[client'[d].s] = "live"
        PROVE  SubOf(d)' \in subs'[grp'[client'[d].s]]
    <3>1. CASE d = c
        BY <1>0, <1>1, <1>2, <1>10, <2>3, <3>1 DEF SubOf, ResourceTypes
    <3>2. CASE d # c
      <4>1. SubOf(d) \in subs[grp[client[d].s]] /\ client'[d] = client[d]
          BY <1>0, <1>1, <1>10, <2>3, <3>2 DEF SubsInv, Asking
      <4>2. client[d].s \in Sessions
          BY <1>0, <2>3, <4>1, ClientFields DEF ResourceTypes, Asking, Registered
      <4>3. grp[client[d].s] \in Sessions
          BY <1>0, <1>1, <2>3, <4>1, <4>2 DEF LifeInv
      <4> QED BY <1>0, <1>1, <1>2, <4>1, <4>3 DEF SubOf, ResourceTypes
    <3> QED BY <3>1, <3>2
  <2> QED BY <2>1, <2>2, <2>3 DEF SubsInv
<1>14. AskInv'
  <2>1. ASSUME NEW x \in Sessions, step'[x].at \in {"route", "enter"}
        PROVE  LET d == step'[x].conn IN
               client'[d].at = "asked" /\ client'[d].s = x /\ client'[d].key = step'[x].key
    <3>1. CASE x = s
        BY <1>0, <1>1, <1>3, <1>10, <2>1, <3>1 DEF ResourceTypes
    <3>2. CASE x # s
      <4>1. step'[x] = step[x] /\ client[step[x].conn].at = "asked"
          BY <1>0, <1>7, <2>1, <3>2 DEF AskInv
      <4>2. step[x].conn \in Conns
          BY <1>0, <2>1, <4>1, StepFields DEF ResourceTypes, AskStates
      <4> QED BY <1>0, <1>4, <1>10, <2>1, <4>1, <4>2 DEF AskInv
    <3> QED BY <3>1, <3>2
  <2>2. ASSUME NEW d \in Conns, client'[d].at = "asked"
        PROVE  LET x == client'[d].s IN step'[x].at \in {"route", "enter"} /\ step'[x].conn = d
    <3>1. CASE d = c
        BY <1>0, <1>1, <1>10, <2>2, <3>1 DEF ResourceTypes
    <3>2. CASE d # c
      <4>1. client'[d] = client[d]
          BY <1>10, <3>2
      <4>2. client[d].s \in Sessions
          BY <1>0, <2>2, <4>1, ClientFields DEF ResourceTypes, Registered
      <4> QED BY <1>0, <1>3, <1>7, <2>2, <4>1, <4>2 DEF AskInv
    <3> QED BY <3>1, <3>2
  <2>3. \A d \in Conns : Asking(d)' => session'[client'[d].s] # "new"
      BY <1>0, <1>1, <1>10 DEF AskInv, Asking
  <2> QED BY <2>1, <2>2, <2>3 DEF AskInv
<1> QED BY <1>6, <1>8, <1>9, <1>13, <1>14 DEF Structure

LEMMA StructureCall ==
    ASSUME Structure, NEW s \in Sessions, AddRoute(s) \/ AddEntry(s)
    PROVE  Structure'
<1> DEFINE c == step[s].conn
<1>0. ResourceTypes /\ LifeInv /\ GroupInv /\ SubsInv /\ AskInv
    BY DEF Structure
<1>1. /\ step[s].at \in {"route", "enter"}
      /\ UNCHANGED <<session, groups, grp, members, subs>>
    BY DEF AddRoute, AddEntry, vars
<1>2. /\ step[s] \in AskStates /\ c \in Conns /\ client[c].at = "asked" /\ client[c].s = s
      /\ client[c] \in Registered
    BY <1>0, <1>1, StepFields, ClientFields DEF ResourceTypes, AskStates, AskInv
<1>6. session[s] = "live"
    BY <1>0, <1>1 DEF LifeInv, ResourceTypes, Idle
<1>3. /\ \A x \in Sessions : x # s => step'[x] = step[x]
      /\ \/ step'[s] = [step[s] EXCEPT !.at = "enter"] /\ client' = client
         \/ step'[s] = Idle /\ client' = [client EXCEPT ![c].at = "active"]
    BY <1>0 DEF AddRoute, AddEntry, Confirm, ResourceTypes
<1>4. CASE step'[s] = [step[s] EXCEPT !.at = "enter"] /\ client' = client
  <2>1. /\ step'[s] \in AskStates /\ step'[s].at = "enter"
        /\ step'[s].conn = c /\ step'[s].key = step[s].key
      BY <1>2, <1>4 DEF AskStates
  <2>2. step' \in [Sessions -> StepStates]
      BY <1>0, <1>3, <2>1 DEF ResourceTypes, StepStates, AddRoute, AddEntry
  <2>3. ResourceTypes'
      BY <1>0, <1>1, <1>4, <2>2 DEF ResourceTypes
  <2>4. LifeInv' /\ GroupInv'
    <3>1. LifeInv'
        BY <1>0, <1>1, <1>3, <1>6, <2>1 DEF LifeInv
    <3>2. \A x \in Sessions : Joined(x)' <=> Joined(x)
        BY <1>1, <1>3, <1>6 DEF Joined
    <3>3. \A x \in Sessions : step'[x].at = "delete" => step'[x] = step[x]
        BY <1>3, <2>1
    <3>4. GroupInv'
        BY <1>0, <1>1, <3>2, <3>3 DEF GroupInv
    <3> QED BY <3>1, <3>4
  <2>5. SubsInv'
      BY <1>0, <1>1, <1>4 DEF SubsInv, Asking, SubOf
  <2>6. AskInv'
    <3>1. \A d \in Conns : client[d].at = "asked" => client[d].s \in Sessions
        BY <1>0, ClientFields DEF ResourceTypes, Registered
    <3>2. \A x \in Sessions : step'[x].at \in {"route", "enter"} =>
              /\ step[x].at \in {"route", "enter"}
              /\ step'[x].conn = step[x].conn /\ step'[x].key = step[x].key
        BY <1>1, <1>3, <2>1
    <3>3. \A x \in Sessions : step[x].at \in {"route", "enter"} =>
              step'[x].at \in {"route", "enter"} /\ step'[x].conn = step[x].conn
        BY <1>3, <2>1
    <3> QED BY <1>0, <1>1, <1>4, <3>1, <3>2, <3>3 DEF AskInv, Asking
  <2> QED BY <2>3, <2>4, <2>5, <2>6 DEF Structure
<1>5. CASE step'[s] = Idle /\ client' = [client EXCEPT ![c].at = "active"]
  <2>1. /\ client'[c] = [client[c] EXCEPT !.at = "active"]
        /\ \A d \in Conns : d # c => client'[d] = client[d]
      BY <1>0, <1>2, <1>5 DEF ResourceTypes
  <2>2. /\ client'[c] \in Registered /\ client'[c].at = "active" /\ client'[c].s = s
        /\ client'[c].key = client[c].key /\ client'[c].mask = client[c].mask
        /\ client'[c].ignored = client[c].ignored
      BY <1>2, <2>1 DEF Registered
  <2>3. client' \in [Conns -> ClientStates] /\ step' \in [Sessions -> StepStates]
      BY <1>0, <1>3, <1>5, <2>2
         DEF ResourceTypes, ClientStates, StepStates, AddRoute, AddEntry, Confirm
  <2>4. ResourceTypes'
      BY <1>0, <1>1, <2>3 DEF ResourceTypes
  <2>5. step'[s].at = "idle"
      BY <1>5 DEF Idle
  <2>6. LifeInv' /\ GroupInv'
    <3>1. LifeInv'
        BY <1>0, <1>1, <1>3, <1>6, <2>5 DEF LifeInv
    <3>2. \A x \in Sessions : Joined(x)' <=> Joined(x)
        BY <1>1, <1>3, <1>6 DEF Joined
    <3>3. \A x \in Sessions : step'[x].at = "delete" => step'[x] = step[x]
        BY <1>3, <2>5
    <3>4. GroupInv'
        BY <1>0, <1>1, <3>2, <3>3 DEF GroupInv
    <3> QED BY <3>1, <3>4
  <2>7. \A d \in Conns :
            /\ Asking(d)' <=> Asking(d)
            /\ SubOf(d)' = SubOf(d)
            /\ Asking(d) => client'[d].s = client[d].s /\ client'[d].ignored = client[d].ignored
      BY <1>2, <2>1, <2>2 DEF Asking, SubOf
  <2>8. \A p \in Sessions : \A x \in subs[p] : x.conn \in Conns
      BY <1>0 DEF ResourceTypes, Subscription
  <2>9. SubsInv'
      BY <1>0, <1>1, <2>7, <2>8 DEF SubsInv
  <2>10. AskInv'
    <3>1. ASSUME NEW x \in Sessions, step'[x].at \in {"route", "enter"}
          PROVE  LET d == step'[x].conn IN
                 client'[d].at = "asked" /\ client'[d].s = x /\ client'[d].key = step'[x].key
      <4>1. x # s /\ step'[x] = step[x]
          BY <1>3, <2>5, <3>1
      <4>2. step[x].conn \in Conns
          BY <1>0, <3>1, <4>1, StepFields DEF ResourceTypes, AskStates
      <4>3. step[x].conn # c
          BY <1>0, <1>2, <3>1, <4>1 DEF AskInv
      <4> QED BY <1>0, <2>1, <3>1, <4>1, <4>2, <4>3 DEF AskInv
    <3>2. ASSUME NEW d \in Conns, client'[d].at = "asked"
          PROVE  LET x == client'[d].s IN step'[x].at \in {"route", "enter"} /\ step'[x].conn = d
      <4>1. d # c /\ client'[d] = client[d]
          BY <2>1, <2>2, <3>2
      <4>2. client[d].s \in Sessions
          BY <1>0, <3>2, <4>1, ClientFields DEF ResourceTypes, Registered
      <4>3. client[d].s # s
          BY <1>0, <1>1, <3>2, <4>1 DEF AskInv
      <4> QED BY <1>0, <1>3, <3>2, <4>1, <4>2, <4>3 DEF AskInv
    <3>3. \A d \in Conns : Asking(d)' => session'[client'[d].s] # "new"
        BY <1>0, <1>1, <2>7 DEF AskInv
    <3> QED BY <3>1, <3>2, <3>3 DEF AskInv
  <2> QED BY <2>4, <2>6, <2>9, <2>10 DEF Structure
<1> QED BY <1>3, <1>4, <1>5

\* The step DelAdvise: both sides drop the subscription.
LEMMA StructureDelAdvise ==
    ASSUME Structure, NEW s \in Sessions, NEW c \in Conns, DelAdvise(s, c)
    PROVE  Structure'
<1> DEFINE o == grp[s]
           mine == {m \in subs[o] : m.conn = c}
<1>0. ResourceTypes /\ LifeInv /\ GroupInv /\ SubsInv /\ AskInv
    BY DEF Structure
<1>1. /\ session[s] = "live" /\ step[s] = Idle /\ client[c].at = "active" /\ client[c].s = s
      /\ subs' = [subs EXCEPT ![o] = @ \ mine]
      /\ client' = [client EXCEPT ![c] = Dropped]
      /\ UNCHANGED <<session, groups, grp, members, step>>
    BY DEF DelAdvise, Calls, vars, Dropped
<1>2. /\ o \in Sessions
      /\ \A d \in Conns : d # c => client'[d] = client[d]
      /\ client'[c].at = "dropped"
    BY <1>0, <1>1 DEF LifeInv, ResourceTypes, Dropped
<1>3. ResourceTypes'
    BY <1>0, <1>1, <1>2 DEF ResourceTypes, ClientStates
<1>4. LifeInv' /\ GroupInv'
    BY <1>0, <1>1 DEF LifeInv, GroupInv, Joined
<1>5. /\ \A p \in Sessions : subs'[p] \subseteq subs[p] /\ \A x \in subs[p] : x.conn \in Conns
      /\ \A p \in Sessions : \A x \in subs[p] : x.conn # c => x \in subs'[p]
      /\ \A x \in subs'[o] : x.conn # c
    BY <1>0, <1>1, <1>2 DEF ResourceTypes, Subscription
<1>6. \A p \in Sessions : \A x \in subs'[p] : x.conn = c => session[x.s] # "live"
  <2> SUFFICES ASSUME NEW p \in Sessions, NEW x \in subs'[p], x.conn = c, session[x.s] = "live"
               PROVE  FALSE
      OBVIOUS
  <2>1. x \in subs[p] /\ x = SubOf(c) /\ x.s \in members[p]
      BY <1>0, <1>5 DEF SubsInv
  <2>2. x.s = s
      BY <1>1, <2>1 DEF SubOf
  <2>3. p = o
      BY <1>0, <2>1, <2>2 DEF GroupInv
  <2> QED BY <1>5, <2>3
<1>7. SubsInv'
  <2>1. ASSUME NEW p \in Sessions, NEW x \in subs'[p]
        PROVE  /\ x.s \in members'[p]
               /\ session'[x.s] = "live" =>
                     Asking(x.conn)' /\ x = SubOf(x.conn)' /\ ~client'[x.conn].ignored
               /\ \A n \in subs'[p] : x.conn = n.conn => x = n
      BY <1>0, <1>1, <1>2, <1>5, <1>6 DEF SubsInv, Asking, SubOf
  <2>2. ASSUME NEW d \in Conns, Asking(d)', ~client'[d].ignored, session'[client'[d].s] = "live"
        PROVE  SubOf(d)' \in subs'[grp'[client'[d].s]]
    <3>1. d # c /\ client'[d] = client[d] /\ Asking(d)
        BY <1>2, <2>2 DEF Asking
    <3>2. SubOf(d) \in subs[grp[client[d].s]] /\ SubOf(d)' = SubOf(d) /\ SubOf(d).conn = d
        BY <1>0, <1>1, <2>2, <3>1 DEF SubsInv, SubOf
    <3>3. client[d].s \in Sessions
        BY <1>0, <3>1, ClientFields DEF ResourceTypes, Asking, Registered
    <3>4. grp[client[d].s] \in Sessions
        BY <1>0, <1>1, <2>2, <3>1, <3>3 DEF LifeInv
    <3> QED BY <1>1, <1>5, <3>1, <3>2, <3>4
  <2> QED BY <2>1, <2>2 DEF SubsInv
<1>8. AskInv'
  <2>1. \A x \in Sessions : step[x].at \in {"route", "enter"} => step[x].conn \in Conns \ {c}
      BY <1>0, <1>1, StepFields DEF ResourceTypes, AskStates, AskInv
  <2> QED BY <1>0, <1>1, <1>2, <2>1 DEF AskInv, Asking
<1> QED BY <1>3, <1>4, <1>7, <1>8 DEF Structure

\* The step StartEnd: the session stays in its group until it is released.
LEMMA StructureStartEnd ==
    ASSUME Structure, NEW s \in Sessions, StartEnd(s)
    PROVE  Structure'
<1>0. ResourceTypes /\ LifeInv /\ GroupInv /\ SubsInv /\ AskInv
    BY DEF Structure
<1>1. /\ session[s] = "live" /\ step[s] = Idle /\ session' = [session EXCEPT ![s] = "ending"]
      /\ step' = [step EXCEPT ![s] = [at |-> "release"]]
      /\ UNCHANGED <<groups, grp, members, subs, client>>
    BY DEF StartEnd, EndSession
<1>2. /\ step[s].at = "idle" /\ step'[s].at = "release" /\ session'[s] = "ending"
      /\ \A x \in Sessions : x # s => step'[x] = step[x] /\ session'[x] = session[x]
      /\ \A x \in Sessions : (session'[x] = "new" <=> session[x] = "new")
                             /\ (session'[x] = "live" => session[x] = "live")
    BY <1>0, <1>1 DEF ResourceTypes, Idle
<1>3. ResourceTypes'
    BY <1>0, <1>1 DEF ResourceTypes, StepStates, EndStates
<1>4. LifeInv'
    BY <1>0, <1>1, <1>2 DEF LifeInv
<1>5. GroupInv'
  <2>1. \A x \in Sessions : Joined(x)' <=> Joined(x)
      BY <1>1, <1>2 DEF Joined
  <2>2. \A x \in Sessions : step'[x].at = "delete" =>
            step'[x] = step[x] /\ step[x].group \in Sessions
      BY <1>0, <1>2, StepFields DEF ResourceTypes, DeleteStates
  <2> QED BY <1>0, <1>1, <1>2, <2>1, <2>2 DEF GroupInv, ResourceTypes
<1>6. SubsInv'
  <2>1. \A p \in Sessions : \A x \in subs[p] : x.s \in Sessions
      BY <1>0 DEF ResourceTypes, Subscription
  <2>2. \A d \in Conns : Asking(d) => client[d].s \in Sessions
      BY <1>0, ClientFields DEF ResourceTypes, Asking, Registered
  <2> QED BY <1>0, <1>1, <1>2, <2>1, <2>2 DEF SubsInv, Asking, SubOf
<1>7. AskInv'
  <2>1. \A d \in Conns : Asking(d) => client[d].s \in Sessions
      BY <1>0, ClientFields DEF ResourceTypes, Asking, Registered
  <2> QED BY <1>0, <1>1, <1>2, <2>1 DEF AskInv, Asking
<1> QED BY <1>3, <1>4, <1>5, <1>6, <1>7 DEF Structure

\* The step ReleaseSession: no subscription of the session stays with the group.
LEMMA StructureRelease ==
    ASSUME Structure, NEW s \in Sessions, ReleaseSession(s)
    PROVE  Structure'
<1> DEFINE o == grp[s]
<1>0. ResourceTypes /\ LifeInv /\ GroupInv /\ SubsInv /\ AskInv
    BY DEF Structure
<1>1. /\ step[s].at = "release" /\ members' = [members EXCEPT ![o] = @ \ {s}]
      /\ subs' = [subs EXCEPT ![o] = {m \in @ : m.s # s}]
      /\ step' = [step EXCEPT ![s].at = "orphan"]
      /\ UNCHANGED <<session, groups, grp, client>>
    BY DEF ReleaseSession, vars
<1>2. session[s] = "ending" /\ o \in Sessions
    BY <1>0, <1>1 DEF LifeInv, ResourceTypes, Idle
<1>3. step'[s] \in EndStates /\ step'[s].at = "orphan"
  <2>1. step[s] \in EndStates
      BY <1>0, <1>1, StepFields DEF ResourceTypes
  <2>2. step'[s] = [step[s] EXCEPT !.at = "orphan"]
      BY <1>0, <1>1 DEF ResourceTypes
  <2> QED BY <2>1, <2>2 DEF EndStates
<1>4. \A x \in Sessions : x # s => step'[x] = step[x]
    BY <1>0, <1>1 DEF ResourceTypes
<1>5. ResourceTypes'
  <2>1. step' \in [Sessions -> StepStates]
      BY <1>0, <1>1, <1>3, <1>4 DEF ResourceTypes, StepStates
  <2>2. subs' \in [Sessions -> SUBSET Subscription]
      BY <1>0, <1>1, <1>2 DEF ResourceTypes
  <2>3. members' \in [Sessions -> SUBSET Sessions]
      BY <1>0, <1>1, <1>2 DEF ResourceTypes
  <2> QED BY <1>0, <1>1, <2>1, <2>2, <2>3 DEF ResourceTypes
<1>6. \A x, p \in Sessions : x \in members'[p] <=> x \in members[p] /\ x # s
    BY <1>0, <1>1, <1>2 DEF ResourceTypes, GroupInv
<1>7. LifeInv'
    BY <1>0, <1>1, <1>2, <1>3, <1>4, <1>5, <1>6 DEF LifeInv, ResourceTypes
<1>8. GroupInv'
  <2>1. \A x \in Sessions : Joined(x)' <=> Joined(x) /\ x # s
      BY <1>1, <1>2, <1>3, <1>4 DEF Joined
  <2>2. \A x, p \in Sessions : x \in members'[p] <=> grp'[x] = p /\ Joined(x)'
      BY <1>0, <1>1, <1>6, <2>1 DEF GroupInv
  <2>3. \A p \in Sessions : members'[p] # {} => members[p] # {}
      BY <1>0, <1>1, <1>2 DEF ResourceTypes
  <2>4. \A x \in Sessions : step'[x].at = "delete" =>
            step'[x] = step[x] /\ step[x].group \in Sessions
      BY <1>0, <1>3, <1>4, StepFields DEF ResourceTypes, DeleteStates
  <2> QED BY <1>0, <1>1, <2>2, <2>3, <2>4 DEF GroupInv
<1>9. \A p \in Sessions : \A x \in subs[p] : x.s \in Sessions /\ (x \in subs'[p] <=> x.s # s)
  <2>1. \A p \in Sessions : \A x \in subs[p] : x.s \in Sessions
      BY <1>0 DEF ResourceTypes, Subscription
  <2>2. \A p \in Sessions : \A x \in subs[p] : x.s = s => p = o
      BY <1>0, <2>1 DEF SubsInv, GroupInv
  <2> QED BY <1>0, <1>1, <1>2, <2>1, <2>2 DEF ResourceTypes
<1>10. \A p \in Sessions : subs'[p] \subseteq subs[p]
    BY <1>0, <1>1, <1>2 DEF ResourceTypes
<1>11. SubsInv'
  <2>1. ASSUME NEW p \in Sessions, NEW x \in subs'[p]
        PROVE  /\ x.s \in members'[p]
               /\ session'[x.s] = "live" =>
                     Asking(x.conn)' /\ x = SubOf(x.conn)' /\ ~client'[x.conn].ignored
               /\ \A n \in subs'[p] : x.conn = n.conn => x = n
      BY <1>0, <1>1, <1>6, <1>9, <1>10 DEF SubsInv, Asking, SubOf
  <2>2. ASSUME NEW d \in Conns, Asking(d)', ~client'[d].ignored, session'[client'[d].s] = "live"
        PROVE  SubOf(d)' \in subs'[grp'[client'[d].s]]
    <3>1. SubOf(d) \in subs[grp[client[d].s]] /\ SubOf(d)' = SubOf(d) /\ SubOf(d).s = client[d].s
        BY <1>0, <1>1, <2>2 DEF SubsInv, SubOf, Asking
    <3>2. client[d].s \in Sessions /\ client[d].s # s
        BY <1>0, <1>1, <1>2, <2>2, ClientFields DEF ResourceTypes, Asking, Registered
    <3>3. grp[client[d].s] \in Sessions
        BY <1>0, <1>1, <2>2, <3>2 DEF LifeInv
    <3> QED BY <1>1, <1>9, <3>1, <3>2, <3>3
  <2> QED BY <2>1, <2>2 DEF SubsInv
<1>12. AskInv'
  <2>1. \A d \in Conns : Asking(d) => client[d].s \in Sessions
      BY <1>0, ClientFields DEF ResourceTypes, Asking, Registered
  <2> QED BY <1>0, <1>1, <1>3, <1>4, <2>1 DEF AskInv, Asking
<1> QED BY <1>5, <1>7, <1>8, <1>11, <1>12 DEF Structure

\* The step DeleteIfOrphaned: only a group without sessions leaves the list.
LEMMA StructureOrphan ==
    ASSUME Structure, NEW s \in Sessions, DeleteIfOrphaned(s)
    PROVE  Structure'
<1> DEFINE g == GroupOf[s]
           o == groups[g]
<1>0. ResourceTypes /\ LifeInv /\ GroupInv /\ SubsInv /\ AskInv
    BY DEF Structure
<1>1. /\ step[s].at = "orphan" /\ UNCHANGED <<session, grp, members, subs, client>>
      /\ \/ /\ o # NoSession /\ members[o] = {}
            /\ groups' = [groups EXCEPT ![g] = NoSession]
            /\ step' = [step EXCEPT ![s] = [at |-> "delete", group |-> o]]
         \/ groups' = groups /\ step' = [step EXCEPT ![s] = [at |-> "locks"]]
    BY DEF DeleteIfOrphaned, vars
<1>2. session[s] = "ending" /\ g \in GroupIds /\ o \in Sessions \cup {NoSession}
    BY <1>0, <1>1, GroupOfAssumption DEF LifeInv, ResourceTypes, Idle
<1>3. /\ \A x \in Sessions : x # s => step'[x] = step[x]
      /\ step'[s].at \in {"delete", "locks"}
    BY <1>0, <1>1 DEF ResourceTypes
<1>4. ResourceTypes'
    BY <1>0, <1>1, <1>2 DEF ResourceTypes, StepStates, EndStates, DeleteStates
<1>5. LifeInv'
    BY <1>0, <1>1, <1>2, <1>3 DEF LifeInv
<1>6. GroupInv'
  <2>1. \A x \in Sessions : Joined(x)' <=> Joined(x)
      BY <1>1, <1>2, <1>3 DEF Joined
  <2>2. \A p \in Sessions : members[p] # {} => groups'[GroupOf[p]] = p
      BY <1>0, <1>1, <1>2, GroupOfAssumption DEF GroupInv, ResourceTypes
  <2>3. \A h \in GroupIds : groups'[h] # NoSession => groups'[h] = groups[h]
      BY <1>0, <1>1 DEF ResourceTypes
  <2>4. ASSUME NEW x \in Sessions, step'[x].at = "delete"
        PROVE  /\ GroupOf[step'[x].group] = GroupOf[x] /\ members[step'[x].group] = {}
               /\ session[step'[x].group] # "new" /\ groups'[GroupOf[x]] # step'[x].group
    <3>1. CASE x = s
        BY <1>0, <1>1, <1>2, <2>4, <3>1, NoSessionAssumption DEF GroupInv, ResourceTypes
    <3>2. CASE x # s
      <4>1. step'[x] = step[x] /\ step[x].group \in Sessions
          BY <1>0, <1>3, <2>4, <3>2, StepFields DEF ResourceTypes, DeleteStates
      <4> QED BY <1>0, <1>1, <2>4, <4>1, GroupOfAssumption, NoSessionAssumption
              DEF GroupInv, ResourceTypes
    <3> QED BY <3>1, <3>2
  <2> QED BY <1>0, <1>1, <2>1, <2>2, <2>3, <2>4 DEF GroupInv
<1>7. SubsInv'
    BY <1>0, <1>1 DEF SubsInv, Asking, SubOf
<1>8. AskInv'
  <2>1. \A d \in Conns : Asking(d) => client[d].s \in Sessions
      BY <1>0, ClientFields DEF ResourceTypes, Asking, Registered
  <2> QED BY <1>0, <1>1, <1>3, <2>1 DEF AskInv, Asking
<1> QED BY <1>4, <1>5, <1>6, <1>7, <1>8 DEF Structure

\* The rest of ~ECSession: the routes of the group, and the locks.
LEMMA StructureEnd ==
    ASSUME Structure, NEW s \in Sessions, DeleteGroup(s) \/ Gone(s)
    PROVE  Structure'
<1>0. ResourceTypes /\ LifeInv /\ GroupInv /\ SubsInv /\ AskInv
    BY DEF Structure
<1>1. /\ step[s].at \in {"delete", "locks"} /\ UNCHANGED <<groups, grp, members, subs, client>>
      /\ session' = session \/ (step[s].at = "locks" /\ session' = [session EXCEPT ![s] = "gone"])
      /\ step' = step \/ (session' = session /\ step' = [step EXCEPT ![s] = [at |-> "locks"]])
    BY DEF DeleteGroup, Gone, SessionGone, vars, subsVars
<1>2. /\ session[s] \in {"ending", "gone"} /\ step'[s].at \in {"delete", "locks"}
      /\ step'[s].at = "delete" => step'[s] = step[s]
      /\ \A x \in Sessions : x # s => step'[x] = step[x] /\ session'[x] = session[x]
      /\ session'[s] \in {"ending", "gone"} /\ (session'[s] = "gone" => step'[s].at = "locks")
    BY <1>0, <1>1 DEF LifeInv, ResourceTypes, Idle
<1>3. ResourceTypes'
    BY <1>0, <1>1 DEF ResourceTypes, StepStates, EndStates
<1>4. \A x \in Sessions : /\ session'[x] = "new" <=> session[x] = "new"
                          /\ session'[x] = "live" <=> session[x] = "live"
    BY <1>2
<1>5. LifeInv'
    BY <1>0, <1>1, <1>2, <1>4 DEF LifeInv
<1>6. GroupInv'
  <2>1. \A x \in Sessions : Joined(x)' <=> Joined(x)
      BY <1>1, <1>2, <1>4 DEF Joined
  <2>2. \A x \in Sessions : step'[x].at = "delete" =>
            step'[x] = step[x] /\ step[x].group \in Sessions
      BY <1>0, <1>2, StepFields DEF ResourceTypes, DeleteStates
  <2>3. \A h \in GroupIds : groups[h] # NoSession => groups[h] \in Sessions
      BY <1>0 DEF ResourceTypes
  <2> QED BY <1>0, <1>1, <1>4, <2>1, <2>2, <2>3 DEF GroupInv
<1>7. \A d \in Conns : Asking(d) => client[d].s \in Sessions
    BY <1>0, ClientFields DEF ResourceTypes, Asking, Registered
<1>8. \A p \in Sessions : \A x \in subs[p] : x.s \in Sessions
    BY <1>0 DEF ResourceTypes, Subscription
<1>9. SubsInv'
    BY <1>0, <1>1, <1>4, <1>7, <1>8 DEF SubsInv, Asking, SubOf
<1>10. AskInv'
    BY <1>0, <1>1, <1>2, <1>4, <1>7 DEF AskInv, Asking
<1> QED BY <1>3, <1>5, <1>6, <1>9, <1>10 DEF Structure

\* A step that leaves sessions, groups and subscriptions alone.
LEMMA StructureSame == Structure /\ UNCHANGED lifeVars => Structure'
<1> SUFFICES ASSUME Structure, UNCHANGED lifeVars PROVE Structure'
    OBVIOUS
<1> USE DEF Structure, lifeVars
<1>1. ResourceTypes'
    BY DEF ResourceTypes
<1>2. LifeInv'
    BY DEF LifeInv
<1>3. GroupInv'
    BY DEF GroupInv, Joined
<1>4. SubsInv'
    BY DEF SubsInv, Asking, SubOf
<1>5. AskInv'
    BY DEF AskInv, Asking
<1> QED BY <1>1, <1>2, <1>3, <1>4, <1>5

\* Locks, and a change that is made known, are of no account for the groups.
LEMMA LocksAndChanges ==
    /\ \A s \in Sessions, o \in Objects :
          LockSteps(s, o) => UNCHANGED <<lifeVars, entries, routes, pub>>
    /\ Publishing => UNCHANGED <<lifeVars, entries, routes>>
<1>1. ASSUME NEW s \in Sessions, NEW o \in Objects, LockSteps(s, o)
      PROVE  UNCHANGED <<lifeVars, entries, routes, pub>>
    BY <1>1 DEF LockSteps, subsVars, lifeVars, LockObject, LockAgain, LockGranted, LockRefused,
                UnlockObject, HandleDestroyed
<1>2. ASSUME Publishing PROVE UNCHANGED <<lifeVars, entries, routes>>
    BY <1>2 DEF Publishing, Publish, Deliver, Published, vars, lifeVars
<1> QED BY <1>1, <1>2

\* Every step keeps the structure.
LEMMA StructureStep == Structure /\ [ResourcesNext]_allVars => Structure'
<1> SUFFICES ASSUME Structure, [ResourcesNext]_allVars PROVE Structure'
    OBVIOUS
<1>1. CASE UNCHANGED allVars
    BY <1>1, StructureSame DEF allVars, vars, subsVars, lifeVars
<1>2. CASE Publishing
    BY <1>2, StructureSame, LocksAndChanges
<1>3. ASSUME NEW s \in Sessions, SessionStep(s) PROVE Structure'
  <2>1. CASE \E o \in Objects : LockSteps(s, o)
      BY <2>1, StructureSame, LocksAndChanges
  <2> QED BY <1>3, <2>1, StructureLogon, StructureAddAdvise, StructureCall, StructureDelAdvise,
             StructureStartEnd, StructureRelease, StructureOrphan, StructureEnd DEF SessionStep
<1> QED BY <1>1, <1>2, <1>3 DEF ResourcesNext

-------------------------------------------------------------------------------
(* Routes and the notes of them.                                           *)

\* The groups and calls that will take back a route are finitely many, and as many as there
\* are routes.
RouteInv ==
    /\ \A st \in Stores, g \in GroupIds :
          IsFiniteSet(Noted(entries, st, g)) /\ IsFiniteSet(Entering(st, g))
    /\ RoutesBalanced

\* What is noted, one by one.
LEMMA NotedMember ==
    ASSUME NEW e, NEW st, NEW g, NEW t
    PROVE  t \in Noted(e, st, g) <=>
              \E o \in Sessions, k \in Keys : /\ GroupOf[o] = g /\ StoreOf[k] = st
                                              /\ \E n \in 1 .. e[o][k] : t = <<<<o, k>>, n>>
<1> DEFINE Of(p) == {<<p, n>> : n \in 1 .. e[p[1]][p[2]]}
           A == {x \in Sessions \X Keys : GroupOf[x[1]] = g /\ StoreOf[x[2]] = st}
<1>1. Noted(e, st, g) = UNION {Of(p) : p \in A}
    BY DEF Noted
<1>2. \A p : t \in Of(p) <=> \E n \in 1 .. e[p[1]][p[2]] : t = <<p, n>>
    OBVIOUS
<1> HIDE DEF Of
<1>3. t \in UNION {Of(p) : p \in A} <=> \E p \in A : t \in Of(p)
    OBVIOUS
<1>4. \A p : p \in A <=> \E o \in Sessions, k \in Keys :
                            p = <<o, k>> /\ GroupOf[o] = g /\ StoreOf[k] = st
    OBVIOUS
<1> HIDE DEF A
<1> QED BY <1>1, <1>2, <1>3, <1>4

\* From e to f the number of entries of key k in group o changes by d, and no other.
Changes(e, f, o, k, d) ==
    /\ e \in [Sessions -> [Keys -> Nat]] /\ f \in [Sessions -> [Keys -> Nat]]
    /\ o \in Sessions /\ k \in Keys /\ f[o][k] = e[o][k] + d
    /\ \A p \in Sessions, j \in Keys : p # o \/ j # k => f[p][j] = e[p][j]

\* One entry more for key k of group o is one more for its store and its id, and for no other.
LEMMA NotedMore ==
    ASSUME NEW e, NEW f, NEW o, NEW k, Changes(e, f, o, k, 1), NEW st, NEW g,
           GroupOf[o] = g, StoreOf[k] = st
    PROVE  /\ Noted(f, st, g) = Noted(e, st, g) \cup {<<<<o, k>>, e[o][k] + 1>>}
           /\ <<<<o, k>>, e[o][k] + 1>> \notin Noted(e, st, g)
<1> DEFINE t == <<<<o, k>>, e[o][k] + 1>>
<1>1. /\ e \in [Sessions -> [Keys -> Nat]] /\ f \in [Sessions -> [Keys -> Nat]]
      /\ o \in Sessions /\ k \in Keys /\ f[o][k] = e[o][k] + 1
      /\ \A p \in Sessions, j \in Keys : p # o \/ j # k => f[p][j] = e[p][j]
    BY DEF Changes
<1>2. \A p \in Sessions, j \in Keys : \A n : n \in 1 .. f[p][j] <=>
          n \in 1 .. e[p][j] \/ (p = o /\ j = k /\ n = e[o][k] + 1)
    BY <1>1
<1>3. ASSUME NEW x
      PROVE  x \in Noted(f, st, g) <=>
                x \in Noted(e, st, g) \/ x = t
  <2>1. x \in Noted(f, st, g) <=>
           \E p \in Sessions, j \in Keys : /\ GroupOf[p] = g /\ StoreOf[j] = st
                                          /\ \E n \in 1 .. f[p][j] : x = <<<<p, j>>, n>>
      BY NotedMember
  <2>2. x \in Noted(e, st, g) <=>
           \E p \in Sessions, j \in Keys : /\ GroupOf[p] = g /\ StoreOf[j] = st
                                          /\ \E n \in 1 .. e[p][j] : x = <<<<p, j>>, n>>
      BY NotedMember
  <2> QED BY <1>1, <1>2, <2>1, <2>2
<1>4. t \notin Noted(e, st, g)
    BY <1>1, NotedMember
<1> HIDE DEF t
<1>5. Noted(f, st, g) = Noted(e, st, g) \cup {t}
    BY <1>3
<1> QED BY <1>4, <1>5 DEF t

\* One entry less is one less for that store and id.
LEMMA NotedLess ==
    ASSUME NEW e, NEW f, NEW o, NEW k, Changes(e, f, o, k, -1), NEW st, NEW g,
           GroupOf[o] = g, StoreOf[k] = st
    PROVE  /\ Noted(f, st, g) = Noted(e, st, g) \ {<<<<o, k>>, e[o][k]>>}
           /\ <<<<o, k>>, e[o][k]>> \in Noted(e, st, g)
<1> DEFINE t == <<<<o, k>>, e[o][k]>>
<1>1. /\ e \in [Sessions -> [Keys -> Nat]] /\ f \in [Sessions -> [Keys -> Nat]]
      /\ o \in Sessions /\ k \in Keys /\ f[o][k] = e[o][k] + (-1)
      /\ \A p \in Sessions, j \in Keys : p # o \/ j # k => f[p][j] = e[p][j]
    BY DEF Changes
<1>2. \A p \in Sessions, j \in Keys : \A n : n \in 1 .. f[p][j] <=>
          n \in 1 .. e[p][j] /\ ~(p = o /\ j = k /\ n = e[o][k])
    BY <1>1
<1>3. ASSUME NEW x
      PROVE  x \in Noted(f, st, g) <=> x \in Noted(e, st, g) /\ x # t
  <2>1. x \in Noted(f, st, g) <=>
           \E p \in Sessions, j \in Keys : /\ GroupOf[p] = g /\ StoreOf[j] = st
                                          /\ \E n \in 1 .. f[p][j] : x = <<<<p, j>>, n>>
      BY NotedMember
  <2>2. x \in Noted(e, st, g) <=>
           \E p \in Sessions, j \in Keys : /\ GroupOf[p] = g /\ StoreOf[j] = st
                                          /\ \E n \in 1 .. e[p][j] : x = <<<<p, j>>, n>>
      BY NotedMember
  <2> QED BY <1>2, <2>1, <2>2
<1>4. t \in Noted(e, st, g)
    BY <1>1, NotedMember
<1> HIDE DEF t
<1>5. Noted(f, st, g) = Noted(e, st, g) \ {t}
    BY <1>3
<1> QED BY <1>4, <1>5 DEF t

\* For any other store or id nothing changes.
LEMMA NotedElsewhere ==
    ASSUME NEW e, NEW f, NEW o, NEW k, NEW d, Changes(e, f, o, k, d), NEW st, NEW g,
           ~(GroupOf[o] = g /\ StoreOf[k] = st)
    PROVE  Noted(f, st, g) = Noted(e, st, g)
<1>1. \A p \in Sessions, j \in Keys : GroupOf[p] = g /\ StoreOf[j] = st => f[p][j] = e[p][j]
    BY DEF Changes
<1>2. \A x : x \in Noted(f, st, g) <=> x \in Noted(e, st, g)
    BY <1>1, NotedMember
<1> QED BY <1>2

\* The smallest key of a set that is not empty is in it.
LEMMA SmallestKey ==
    ASSUME NEW S \in SUBSET Nat, S # {}
    PROVE  Min(S) \in S
<1> DEFINE R == {ss \in Nat \X Nat : ss[1] < ss[2]}
<1>1. IsWellFoundedOn(R, Nat)
    BY NatLessThanWellFounded DEF OpToRel
<1> HIDE DEF R
<1>2. PICK n \in S : \A k \in S : ~(<<k, n>> \in R)
    BY <1>1, WFMin
<1>3. \A k \in S : k < n => <<k, n>> \in R
    BY DEF R
<1>4. ASSUME NEW k \in S
      PROVE  n =< k
  <2>1. ~(k < n)
      BY <1>2, <1>3, Zenon
  <2> QED BY <2>1
<1> QED BY <1>4 DEF Min

\* One member more.
LEMMA OneMore ==
    ASSUME NEW S, NEW T, NEW x, IsFiniteSet(S), x \notin S, T = S \cup {x}
    PROVE  IsFiniteSet(T) /\ Cardinality(S) \in Nat /\ Cardinality(T) = Cardinality(S) + 1
BY FS_AddElement, FS_CardinalityType

\* One member less.
LEMMA OneLess ==
    ASSUME NEW S, NEW T, NEW x, IsFiniteSet(S), x \in S, T = S \ {x}
    PROVE  IsFiniteSet(T) /\ Cardinality(S) \in Nat /\ Cardinality(T) = Cardinality(S) - 1
BY FS_RemoveElement, FS_CardinalityType

\* Calls that are about to note an entry are not touched.
SameEntering ==
    \A s \in Sessions : /\ step'[s].at = "enter" <=> step[s].at = "enter"
                        /\ step[s].at = "enter" => step'[s].key = step[s].key

\* Then the calls that are about to note an entry are the same for every store and id.
LEMMA EnteringSame ==
    ASSUME SameEntering, NEW st, NEW g
    PROVE  Entering(st, g)' = Entering(st, g)
BY DEF SameEntering, Entering

\* A step that leaves entries, routes and those calls alone.
LEMMA RouteSame ==
    ASSUME CountTypes, RouteInv, SameEntering, UNCHANGED <<entries, routes>>
    PROVE  CountTypes' /\ RouteInv'
<1>1. \A st, g : Entering(st, g)' = Entering(st, g)
    BY EnteringSame
<1> QED BY <1>1 DEF CountTypes, RouteInv, RoutesBalanced

\* UnsubscribeObjectEvents, called for an entry that the group has noted, finds one of the
\* group and takes back that one.
LEMMA TakesOneBack ==
    ASSUME CountTypes, RouteInv, SameEntering, NEW o \in Sessions, NEW k \in Keys,
           entries[o][k] > 0, entries' = [entries EXCEPT ![o][k] = @ - 1],
           routes' \in UnsubscribeObjectEvents(routes, StoreOf[k], GroupOf[o])
    PROVE  CountTypes' /\ RouteInv'
<1> DEFINE t == <<<<o, k>>, entries[o][k]>>
<1>1. StoreOf[k] \in Stores /\ GroupOf[o] \in GroupIds
    BY StoreOfAssumption, GroupOfAssumption DEF Stores
<1>2. /\ entries \in [Sessions -> [Keys -> Nat]] /\ routes \in [Stores -> [GroupIds -> Nat]]
      /\ \A st \in Stores, g \in GroupIds :
            /\ IsFiniteSet(Noted(entries, st, g)) /\ IsFiniteSet(Entering(st, g))
            /\ routes[st][g] = Cardinality(Noted(entries, st, g)) + Cardinality(Entering(st, g))
    BY DEF CountTypes, RouteInv, RoutesBalanced
<1>8. Changes(entries, entries', o, k, -1)
    BY <1>2 DEF Changes
<1>3. t \in Noted(entries, StoreOf[k], GroupOf[o])
    BY <1>8, NotedLess
<1>4. routes[StoreOf[k]][GroupOf[o]] > 0
  <2> DEFINE N == Noted(entries, StoreOf[k], GroupOf[o])
             M == Entering(StoreOf[k], GroupOf[o])
  <2>1. IsFiniteSet(N) /\ IsFiniteSet(M) /\ N # {}
      BY <1>1, <1>2, <1>3
  <2> HIDE DEF N, M
  <2>2. Cardinality(N) \in Nat /\ Cardinality(M) \in Nat /\ Cardinality(N) # 0
      BY <2>1, FS_CardinalityType, FS_EmptySet
  <2>3. routes[StoreOf[k]][GroupOf[o]] = Cardinality(N) + Cardinality(M)
      BY <1>1, <1>2 DEF N, M
  <2> QED BY <2>2, <2>3
<1>5. routes' = [routes EXCEPT ![StoreOf[k]][GroupOf[o]] = @ - 1]
    BY <1>4 DEF UnsubscribeObjectEvents
<1>6. CountTypes'
    BY <1>1, <1>2, <1>4, <1>5 DEF CountTypes
<1>7. ASSUME NEW st \in Stores, NEW g \in GroupIds
      PROVE  /\ IsFiniteSet(Noted(entries', st, g)) /\ IsFiniteSet(Entering(st, g)')
             /\ routes'[st][g] = Cardinality(Noted(entries', st, g)) + Cardinality(Entering(st, g)')
  <2>1. Entering(st, g)' = Entering(st, g)
      BY EnteringSame
  <2>2. CASE GroupOf[o] = g /\ StoreOf[k] = st
    <3>1. Noted(entries', st, g) = Noted(entries, st, g) \ {t} /\ t \in Noted(entries, st, g)
        BY <1>8, <2>2, NotedLess
    <3>2. /\ IsFiniteSet(Noted(entries', st, g))
          /\ Cardinality(Noted(entries', st, g)) = Cardinality(Noted(entries, st, g)) - 1
      <4>1. IsFiniteSet(Noted(entries, st, g))
          BY <1>2
      <4> QED BY <3>1, <4>1, OneLess, Zenon
    <3>3. Cardinality(Noted(entries, st, g)) \in Nat /\ Cardinality(Entering(st, g)) \in Nat
        BY <1>2, FS_CardinalityType
    <3>4. routes'[st][g] = routes[st][g] - 1
        BY <1>1, <1>2, <1>5, <2>2
    <3> QED BY <1>2, <2>1, <3>2, <3>3, <3>4
  <2>3. CASE ~(GroupOf[o] = g /\ StoreOf[k] = st)
    <3>1. Noted(entries', st, g) = Noted(entries, st, g)
        BY <1>8, <2>3, NotedElsewhere
    <3>2. routes'[st][g] = routes[st][g]
        BY <1>1, <1>2, <1>5, <2>3
    <3> QED BY <1>2, <2>1, <3>1, <3>2
  <2> QED BY <2>2, <2>3
<1> QED BY <1>6, <1>7 DEF RouteInv, RoutesBalanced

\* SubscribeObjectEvents: the call that has made the route is about to note it.
LEMMA RouteAdded ==
    ASSUME Structure, CountTypes, RouteInv, NEW s \in Sessions, AddRoute(s)
    PROVE  CountTypes' /\ RouteInv'
<1> DEFINE k == step[s].key
<1>1. /\ step[s].at = "route" /\ UNCHANGED entries
      /\ routes' = [routes EXCEPT ![StoreOf[k]][GroupOf[s]] = @ + 1]
      /\ step' = [step EXCEPT ![s].at = "enter"]
    BY DEF AddRoute
<1>2. k \in Keys /\ step[s] \in AskStates
    BY <1>1, StepFields DEF Structure, ResourceTypes, AskStates
<1>3. StoreOf[k] \in Stores /\ GroupOf[s] \in GroupIds
    BY <1>2, StoreOfAssumption, GroupOfAssumption DEF Stores
<1>4. /\ entries \in [Sessions -> [Keys -> Nat]] /\ routes \in [Stores -> [GroupIds -> Nat]]
      /\ \A st \in Stores, g \in GroupIds :
            /\ IsFiniteSet(Noted(entries, st, g)) /\ IsFiniteSet(Entering(st, g))
            /\ routes[st][g] = Cardinality(Noted(entries, st, g)) + Cardinality(Entering(st, g))
    BY DEF CountTypes, RouteInv, RoutesBalanced
<1>5. /\ step'[s].at = "enter" /\ step'[s].key = k
      /\ \A x \in Sessions : x # s => step'[x] = step[x]
    BY <1>1, <1>2 DEF Structure, ResourceTypes, AskStates
<1>6. CountTypes'
    BY <1>1, <1>3, <1>4 DEF CountTypes
<1>7. ASSUME NEW st \in Stores, NEW g \in GroupIds
      PROVE  /\ IsFiniteSet(Noted(entries', st, g)) /\ IsFiniteSet(Entering(st, g)')
             /\ routes'[st][g] = Cardinality(Noted(entries', st, g)) + Cardinality(Entering(st, g)')
  <2>1. Noted(entries', st, g) = Noted(entries, st, g)
      BY <1>1
  <2>2. CASE GroupOf[s] = g /\ StoreOf[k] = st
    <3>1. Entering(st, g)' = Entering(st, g) \cup {s} /\ s \notin Entering(st, g)
        BY <1>1, <1>5, <2>2 DEF Entering
    <3>2. /\ IsFiniteSet(Entering(st, g)')
          /\ Cardinality(Entering(st, g)') = Cardinality(Entering(st, g)) + 1
        BY <1>4, <3>1, OneMore
    <3>3. Cardinality(Noted(entries, st, g)) \in Nat /\ Cardinality(Entering(st, g)) \in Nat
        BY <1>4, FS_CardinalityType
    <3>4. routes'[st][g] = routes[st][g] + 1
        BY <1>1, <1>3, <1>4, <2>2
    <3> QED BY <1>4, <2>1, <3>2, <3>3, <3>4
  <2>3. CASE ~(GroupOf[s] = g /\ StoreOf[k] = st)
    <3>1. Entering(st, g)' = Entering(st, g)
        BY <1>1, <1>5, <2>3 DEF Entering
    <3>2. routes'[st][g] = routes[st][g]
        BY <1>1, <1>3, <1>4, <2>3
    <3> QED BY <1>4, <2>1, <3>1, <3>2
  <2> QED BY <2>2, <2>3
<1> QED BY <1>6, <1>7 DEF RouteInv, RoutesBalanced

\* The note is made.
LEMMA RouteNoted ==
    ASSUME Structure, CountTypes, RouteInv, NEW s \in Sessions, AddEntry(s)
    PROVE  CountTypes' /\ RouteInv'
<1> DEFINE k == step[s].key
           o == grp[s]
           t == <<<<o, k>>, entries[o][k] + 1>>
<1>1. /\ step[s].at = "enter" /\ UNCHANGED routes
      /\ entries' = [entries EXCEPT ![o][k] = @ + 1]
      /\ step' = [step EXCEPT ![s] = Idle]
    BY DEF AddEntry
<1>2. k \in Keys
    BY <1>1, StepFields DEF Structure, ResourceTypes, AskStates
<1>3. o \in Sessions /\ GroupOf[o] = GroupOf[s] /\ GroupOf[s] \in GroupIds
  <2>1. session[s] # "new"
      BY <1>1 DEF Structure, LifeInv, Idle
  <2> QED BY <2>1, GroupOfAssumption DEF Structure, LifeInv
<1>4. /\ entries \in [Sessions -> [Keys -> Nat]] /\ routes \in [Stores -> [GroupIds -> Nat]]
      /\ \A st \in Stores, g \in GroupIds :
            /\ IsFiniteSet(Noted(entries, st, g)) /\ IsFiniteSet(Entering(st, g))
            /\ routes[st][g] = Cardinality(Noted(entries, st, g)) + Cardinality(Entering(st, g))
    BY DEF CountTypes, RouteInv, RoutesBalanced
<1>5. step'[s].at = "idle" /\ \A x \in Sessions : x # s => step'[x] = step[x]
    BY <1>1 DEF Structure, ResourceTypes, Idle
<1>8. Changes(entries, entries', o, k, 1)
    BY <1>1, <1>2, <1>3, <1>4 DEF Changes
<1>6. CountTypes'
    BY <1>1, <1>2, <1>3, <1>4 DEF CountTypes
<1>7. ASSUME NEW st \in Stores, NEW g \in GroupIds
      PROVE  /\ IsFiniteSet(Noted(entries', st, g)) /\ IsFiniteSet(Entering(st, g)')
             /\ routes'[st][g] = Cardinality(Noted(entries', st, g)) + Cardinality(Entering(st, g)')
  <2>1. CASE GroupOf[s] = g /\ StoreOf[k] = st
    <3>1. Entering(st, g)' = Entering(st, g) \ {s} /\ s \in Entering(st, g)
        BY <1>1, <1>5, <2>1 DEF Entering
    <3>2. /\ IsFiniteSet(Entering(st, g)')
          /\ Cardinality(Entering(st, g)') = Cardinality(Entering(st, g)) - 1
        BY <1>4, <3>1, OneLess
    <3>3. Cardinality(Noted(entries, st, g)) \in Nat /\ Cardinality(Entering(st, g)) \in Nat
        BY <1>4, FS_CardinalityType
    <3>4. Noted(entries', st, g) = Noted(entries, st, g) \cup {t} /\ t \notin Noted(entries, st, g)
        BY <1>2, <1>3, <1>8, <2>1, NotedMore
    <3>5. /\ IsFiniteSet(Noted(entries', st, g))
          /\ Cardinality(Noted(entries', st, g)) = Cardinality(Noted(entries, st, g)) + 1
        BY <1>4, <3>4, OneMore
    <3> QED BY <1>1, <1>4, <3>2, <3>3, <3>5
  <2>2. CASE ~(GroupOf[s] = g /\ StoreOf[k] = st)
    <3>1. Entering(st, g)' = Entering(st, g)
        BY <1>1, <1>5, <2>2 DEF Entering
    <3>2. Noted(entries', st, g) = Noted(entries, st, g)
      <4>1. ~(GroupOf[o] = g /\ StoreOf[k] = st)
          BY <1>3, <2>2
      <4> QED BY <1>8, <4>1, NotedElsewhere
    <3> QED BY <1>1, <1>4, <3>1, <3>2
  <2> QED BY <2>1, <2>2
<1> QED BY <1>6, <1>7 DEF RouteInv, RoutesBalanced

\* At the start there are no routes.
LEMMA RouteInit == ResourcesInit => RouteInv
<1> SUFFICES ASSUME ResourcesInit, NEW st \in Stores, NEW g \in GroupIds
             PROVE  /\ IsFiniteSet(Noted(entries, st, g)) /\ IsFiniteSet(Entering(st, g))
                    /\ routes[st][g] =
                          Cardinality(Noted(entries, st, g)) + Cardinality(Entering(st, g))
    BY DEF RouteInv, RoutesBalanced
<1>1. routes[st][g] = 0 /\ \A o \in Sessions, k \in Keys : entries[o][k] = 0
    BY DEF ResourcesInit, SubsInit
<1>2. Noted(entries, st, g) = {}
    BY <1>1, NotedMember
<1>3. Entering(st, g) = {}
    BY DEF ResourcesInit, SubsInit, Entering, Idle
<1> QED BY <1>1, <1>2, <1>3, FS_EmptySet

\* DelAdvise and ~ECSessionGroup: what is taken back is an entry of the group, or nothing.
LEMMA RouteTakenBack ==
    ASSUME Structure, CountTypes, RouteInv, NEW s \in Sessions,
           DeleteGroup(s) \/ \E c \in Conns : DelAdvise(s, c)
    PROVE  CountTypes' /\ RouteInv'
<1>1. CASE DeleteGroup(s)
  <2> DEFINE o == step[s].group
             left == {k \in Keys : entries[o][k] > 0}
  <2>1. o \in Sessions /\ GroupOf[o] = GroupOf[s]
      BY <1>1, StepFields DEF DeleteGroup, Structure, ResourceTypes, DeleteStates, GroupInv
  <2>2. SameEntering
      BY <1>1 DEF DeleteGroup, SameEntering, Structure, ResourceTypes
  <2>3. CASE left = {}
    <3>1. UNCHANGED <<entries, routes>>
        BY <1>1, <2>3 DEF DeleteGroup
    <3> QED BY <2>2, <3>1, RouteSame
  <2>4. CASE left # {}
    <3>1. Min(left) \in left
        BY <2>4, SmallestKey, StoreOfAssumption
    <3>2. /\ routes' \in UnsubscribeObjectEvents(routes, StoreOf[Min(left)], GroupOf[o])
          /\ entries' = [entries EXCEPT ![o][Min(left)] = @ - 1]
        BY <1>1, <2>1, <2>4 DEF DeleteGroup
    <3>3. Min(left) \in Keys /\ entries[o][Min(left)] > 0
        BY <3>1
    <3> HIDE DEF left
    <3> QED BY <2>1, <2>2, <3>2, <3>3, TakesOneBack
  <2> QED BY <2>3, <2>4
<1>2. ASSUME NEW c \in Conns, DelAdvise(s, c)
      PROVE  CountTypes' /\ RouteInv'
  <2> DEFINE o == grp[s]
  <2>1. step' = step /\ session[s] = "live"
      BY <1>2 DEF DelAdvise, Calls
  <2>2. SameEntering
      BY <2>1 DEF SameEntering
  <2>3. o \in Sessions /\ GroupOf[o] = GroupOf[s]
      BY <2>1 DEF Structure, LifeInv
  <2>4. \/ UNCHANGED <<entries, routes>>
        \/ \E m \in subs[o] :
              /\ entries[o][m.key] > 0 /\ entries' = [entries EXCEPT ![o][m.key] = @ - 1]
              /\ routes' \in UnsubscribeObjectEvents(routes, StoreOf[m.key], GroupOf[s])
      BY <1>2 DEF DelAdvise, DropRoute
  <2>5. CASE UNCHANGED <<entries, routes>>
      BY <2>2, <2>5, RouteSame
  <2>6. ASSUME NEW m \in subs[o], entries[o][m.key] > 0,
               entries' = [entries EXCEPT ![o][m.key] = @ - 1],
               routes' \in UnsubscribeObjectEvents(routes, StoreOf[m.key], GroupOf[s])
        PROVE  CountTypes' /\ RouteInv'
    <3>1. m.key \in Keys
        BY <2>3 DEF Structure, ResourceTypes, Subscription
    <3> QED BY <2>2, <2>3, <2>6, <3>1, TakesOneBack
  <2> QED BY <2>4, <2>5, <2>6
<1> QED BY <1>1, <1>2

\* Every step keeps the balance.
LEMMA RouteStep ==
    Structure /\ CountTypes /\ RouteInv /\ [ResourcesNext]_allVars => CountTypes' /\ RouteInv'
<1> SUFFICES ASSUME Structure, CountTypes, RouteInv, [ResourcesNext]_allVars
             PROVE  CountTypes' /\ RouteInv'
    OBVIOUS
<1>1. ASSUME UNCHANGED <<step, entries, routes>> PROVE CountTypes' /\ RouteInv'
    BY <1>1, RouteSame DEF SameEntering
<1>2. CASE UNCHANGED allVars
    BY <1>1, <1>2 DEF allVars, subsVars
<1>3. CASE Publishing
    BY <1>1, <1>3, LocksAndChanges DEF lifeVars
<1>4. ASSUME NEW s \in Sessions, SessionStep(s) PROVE CountTypes' /\ RouteInv'
  <2>1. CASE LogonSession(s) \/ Gone(s) \/ \E o \in Objects : LockSteps(s, o)
      BY <1>1, <2>1, LocksAndChanges DEF LogonSession, Gone, subsVars, lifeVars
  <2>2. CASE \/ \E c \in Conns, i \in Interests : AddAdvise(s, c, i)
             \/ StartEnd(s) \/ ReleaseSession(s) \/ DeleteIfOrphaned(s)
    <3>1. UNCHANGED <<entries, routes>>
        BY <2>2 DEF AddAdvise, StartEnd, ReleaseSession, DeleteIfOrphaned
    <3>2. step[s].at # "enter"
        BY <2>2 DEF AddAdvise, Calls, StartEnd, ReleaseSession, DeleteIfOrphaned, Idle
    <3>3. step'[s].at # "enter" /\ \A x \in Sessions : x # s => step'[x] = step[x]
      <4>1. CASE ReleaseSession(s)
        <5>1. step[s] \in EndStates /\ step' = [step EXCEPT ![s].at = "orphan"]
            BY <4>1, StepFields DEF ReleaseSession, Structure, ResourceTypes
        <5> QED BY <5>1 DEF Structure, ResourceTypes, EndStates
      <4>2. CASE ~ReleaseSession(s)
          BY <2>2, <3>2, <4>2
             DEF AddAdvise, StartEnd, DeleteIfOrphaned, Structure, ResourceTypes
      <4> QED BY <4>1, <4>2
    <3>4. SameEntering
        BY <3>2, <3>3 DEF SameEntering
    <3> QED BY <3>1, <3>4, RouteSame
  <2> QED BY <1>4, <2>1, <2>2, RouteAdded, RouteNoted, RouteTakenBack DEF SessionStep
<1> QED BY <1>2, <1>3, <1>4 DEF ResourcesNext

-------------------------------------------------------------------------------
(* Confirmed subscriptions and their entries.                              *)

\* The call that made the subscription has not returned yet.
Pending(m) == client[m.conn].at = "asked" /\ client[m.conn].s = m.s

\* The confirmed subscriptions of a group to a key for which there is an entry.
Settled(o, k) == {m \in subs[o] : m.key = k /\ Routed(m.mask) /\ ~Pending(m)}

\* A group keeps at least one entry for each of them.  There may be more: ReleaseSession
\* leaves them, and a subscription to new mail is withdrawn without its entry.
Enough(o, k) == IsFiniteSet(Settled(o, k)) /\ Cardinality(Settled(o, k)) <= entries[o][k]
EntryInv == \A o \in Sessions, k \in Keys : Enough(o, k)

\* Fewer subscriptions, or more entries: there are still enough.
LEMMA EnoughStays ==
    ASSUME NEW o \in Sessions, NEW k \in Keys, Enough(o, k), CountTypes, CountTypes',
           Settled(o, k)' \subseteq Settled(o, k), entries'[o][k] >= entries[o][k]
    PROVE  Enough(o, k)'
<1>1. entries[o][k] \in Nat /\ entries'[o][k] \in Nat
    BY DEF CountTypes
<1>2. /\ IsFiniteSet(Settled(o, k)') /\ Cardinality(Settled(o, k)') <= Cardinality(Settled(o, k))
      /\ Cardinality(Settled(o, k)') \in Nat /\ Cardinality(Settled(o, k)) \in Nat
    BY FS_Subset, FS_CardinalityType DEF Enough
<1>3. Cardinality(Settled(o, k)) <= entries[o][k]
    BY DEF Enough
<1>4. Cardinality(Settled(o, k)') <= entries'[o][k]
    BY <1>1, <1>2, <1>3
<1> QED BY <1>2, <1>4 DEF Enough

\* The step AddAdvise: a new subscription is pending, if there is to be an entry for it.
LEMMA EntryAddAdvise ==
    ASSUME Structure, CountTypes, CountTypes', EntryInv, NEW s \in Sessions, NEW c \in Conns,
           NEW i \in Interests, AddAdvise(s, c, i)
    PROVE  EntryInv'
<1> DEFINE new == [conn |-> c, s |-> s, key |-> i.key, mask |-> i.mask]
<1>1. /\ client[c].at # "asked" /\ entries' = entries /\ c \in DOMAIN client
      /\ \A p \in Sessions : \A x \in subs'[p] : x \in subs[p] \/ x = new
    BY DEF AddAdvise, MayRegister, Free, Structure, ResourceTypes
<1>2. /\ \A d \in Conns : d # c => client'[d] = client[d]
      /\ client'[c].s = s /\ (Routed(i.mask) => client'[c].at = "asked")
    BY DEF AddAdvise, Structure, ResourceTypes
<1>3. ASSUME NEW p \in Sessions, NEW k \in Keys
      PROVE  Settled(p, k)' \subseteq Settled(p, k)
  <2> SUFFICES ASSUME NEW x \in Settled(p, k)' PROVE x \in Settled(p, k)
      OBVIOUS
  <2>1. x \in subs'[p] /\ x.key = k /\ Routed(x.mask) /\ ~Pending(x)'
      BY DEF Settled
  <2>2. x # new
      BY <1>2, <2>1 DEF Pending
  <2>3. x \in subs[p] /\ x.conn \in Conns
      BY <1>1, <2>1, <2>2 DEF Structure, ResourceTypes, Subscription
  <2>4. ~Pending(x)
      BY <1>1, <1>2, <2>1, <2>3 DEF Pending
  <2> QED BY <2>1, <2>3, <2>4 DEF Settled
<1> QED
  <2> SUFFICES ASSUME NEW p \in Sessions, NEW k \in Keys PROVE Enough(p, k)'
      BY DEF EntryInv
  <2>1. entries'[p][k] >= entries[p][k]
      BY <1>1 DEF CountTypes
  <2> QED BY <1>3, <2>1, EnoughStays DEF EntryInv

\* The note is there when the call returns.
LEMMA EntryNoted ==
    ASSUME Structure, CountTypes, CountTypes', EntryInv, NEW s \in Sessions, AddEntry(s)
    PROVE  EntryInv'
<1> DEFINE c == step[s].conn
           o == grp[s]
           j == step[s].key
<1>0. ResourceTypes /\ LifeInv /\ GroupInv /\ SubsInv /\ AskInv
    BY DEF Structure
<1>1. /\ step[s].at = "enter" /\ UNCHANGED <<session, subs>>
      /\ entries' = [entries EXCEPT ![o][j] = @ + 1]
      /\ client' = [client EXCEPT ![c].at = "active"]
    BY DEF AddEntry, Confirm, vars
<1>2. /\ c \in Conns /\ j \in Keys /\ client[c].at = "asked" /\ client[c].s = s /\ client[c].key = j
      /\ client[c] \in Registered
    BY <1>0, <1>1, StepFields, ClientFields DEF ResourceTypes, AskStates, AskInv
<1>3. session[s] = "live"
    BY <1>0, <1>1 DEF LifeInv, ResourceTypes, Idle
<1>4. o \in Sessions
    BY <1>0, <1>3 DEF LifeInv
<1>5. \A d \in Conns : d # c => client'[d] = client[d]
    BY <1>0, <1>1, <1>2 DEF ResourceTypes
<1>6. ASSUME NEW p \in Sessions, NEW k \in Keys, NEW x \in Settled(p, k)', x \notin Settled(p, k)
      PROVE  p = o /\ k = j /\ x = SubOf(c)
  <2>1. x \in subs[p] /\ x.key = k /\ Routed(x.mask) /\ ~Pending(x)' /\ Pending(x)
      BY <1>1, <1>6 DEF Settled
  <2>2. x.conn \in Conns
      BY <1>0, <2>1 DEF ResourceTypes, Subscription
  <2>3. x.conn = c
      BY <1>5, <2>1, <2>2 DEF Pending
  <2>4. x.s = s
      BY <1>2, <2>1, <2>3 DEF Pending
  <2>5. x = SubOf(c) /\ s \in members[p]
      BY <1>0, <1>3, <2>1, <2>3, <2>4 DEF SubsInv
  <2>6. p = o
      BY <1>0, <2>5 DEF GroupInv
  <2>7. x.key = client[c].key
      BY <2>5 DEF SubOf
  <2> QED BY <1>2, <2>1, <2>5, <2>6, <2>7
<1>7. ASSUME NEW p \in Sessions, NEW k \in Keys
      PROVE  Enough(p, k)'
  <2>1. CASE p = o /\ k = j
    <3> DEFINE A == Settled(p, k)
               x == SubOf(c)
               B == A \cup {x}
               C == Settled(p, k)'
    <3>1. C \in SUBSET B
        BY <1>6
    <3>2. IsFiniteSet(A) /\ Cardinality(A) <= entries[p][k]
        BY DEF EntryInv, Enough
    <3> HIDE DEF A, x, C
    <3>3. IsFiniteSet(B) /\ Cardinality(A) \in Nat /\ Cardinality(B) <= Cardinality(A) + 1
      <4>1. Cardinality(A) \in Nat
          BY <3>2, FS_CardinalityType
      <4>2. /\ IsFiniteSet(B)
            /\ Cardinality(B) = IF x \in A THEN Cardinality(A) ELSE Cardinality(A) + 1
          BY <3>2, FS_AddElement
      <4> QED BY <4>1, <4>2
    <3> HIDE DEF B
    <3>4. IsFiniteSet(C) /\ Cardinality(C) <= Cardinality(B)
        BY <3>1, <3>3, FS_Subset
    <3>5. Cardinality(B) \in Nat /\ Cardinality(C) \in Nat
        BY <3>3, <3>4, FS_CardinalityType
    <3>6. entries'[p][k] = entries[p][k] + 1 /\ entries[p][k] \in Nat
        BY <1>1, <1>2, <1>4, <2>1 DEF CountTypes
    <3>7. Cardinality(C) <= entries'[p][k]
        BY <3>2, <3>3, <3>4, <3>5, <3>6
    <3> QED BY <3>4, <3>7 DEF Enough, C
  <2>2. CASE ~(p = o /\ k = j)
    <3>1. Settled(p, k)' \subseteq Settled(p, k)
        BY <1>6, <2>2
    <3>2. entries'[p][k] >= entries[p][k]
        BY <1>1, <1>2, <1>4, <2>2 DEF CountTypes
    <3> QED BY <3>1, <3>2, EnoughStays DEF EntryInv
  <2> QED BY <2>1, <2>2
<1> QED BY <1>7 DEF EntryInv

\* DelAdvise erases at most one entry of the key whose subscription it has erased.
LEMMA EntryDelAdvise ==
    ASSUME Structure, CountTypes, CountTypes', EntryInv, NEW s \in Sessions, NEW c \in Conns,
           DelAdvise(s, c)
    PROVE  EntryInv'
<1> DEFINE o == grp[s]
<1>0. ResourceTypes /\ LifeInv
    BY DEF Structure
<1>1. /\ session[s] = "live" /\ client[c].at = "active"
      /\ subs' = [subs EXCEPT ![o] = @ \ {m \in subs[o] : m.conn = c}]
      /\ client' = [client EXCEPT ![c] = Dropped]
      /\ \/ entries' = entries
         \/ \E m \in subs[o] : /\ m.conn = c /\ "object" \in m.mask
                               /\ entries' = [entries EXCEPT ![o][m.key] = @ - 1]
    BY DEF DelAdvise, DropRoute, Calls, Dropped
<1>2. /\ o \in Sessions
      /\ \A d \in Conns : d # c => client'[d] = client[d]
      /\ client'[c].at = "dropped"
    BY <1>0, <1>1 DEF LifeInv, ResourceTypes, Dropped
<1>3. \A p \in Sessions : \A x \in subs[p] :
          x.conn \in Conns /\ x.key \in Keys /\ x.mask \in SUBSET Events
    BY <1>0 DEF ResourceTypes, Subscription
<1>4. \A p \in Sessions : subs'[p] \subseteq subs[p] /\ (p = o => \A x \in subs'[p] : x.conn # c)
    BY <1>0, <1>1, <1>2 DEF ResourceTypes
<1>5. ASSUME NEW p \in Sessions, NEW k \in Keys
      PROVE  /\ Settled(p, k)' \subseteq Settled(p, k)
             /\ p = o => \A x \in Settled(p, k)' : x.conn # c
  <2>1. \A x \in subs[p] : Pending(x)' <=> Pending(x)
      BY <1>1, <1>2, <1>3 DEF Pending
  <2> QED BY <1>4, <2>1 DEF Settled
<1>6. CASE entries' = entries
  <2> SUFFICES ASSUME NEW p \in Sessions, NEW k \in Keys PROVE Enough(p, k)'
      BY DEF EntryInv
  <2>1. entries'[p][k] >= entries[p][k]
      BY <1>6 DEF CountTypes
  <2> QED BY <1>5, <2>1, EnoughStays DEF EntryInv
<1>7. ASSUME NEW m \in subs[o], m.conn = c, "object" \in m.mask,
             entries' = [entries EXCEPT ![o][m.key] = @ - 1]
      PROVE  EntryInv'
  <2> SUFFICES ASSUME NEW p \in Sessions, NEW k \in Keys PROVE Enough(p, k)'
      BY DEF EntryInv
  <2>1. CASE p = o /\ k = m.key
    <3>1. m \in Settled(p, k)
        BY <1>1, <1>2, <1>3, <1>7, <2>1 DEF Settled, Pending, Routed
    <3> DEFINE A == Settled(p, k)
               B == A \ {m}
               C == Settled(p, k)'
    <3>2. C \in SUBSET B /\ m \in A
        BY <1>5, <1>7, <2>1, <3>1
    <3>3. IsFiniteSet(A) /\ Cardinality(A) <= entries[p][k]
        BY DEF EntryInv, Enough
    <3> HIDE DEF A, C
    <3>4. IsFiniteSet(B) /\ Cardinality(A) \in Nat /\ Cardinality(B) = Cardinality(A) - 1
        BY <3>2, <3>3, OneLess
    <3> HIDE DEF B
    <3>5. IsFiniteSet(C) /\ Cardinality(C) <= Cardinality(B)
        BY <3>2, <3>4, FS_Subset
    <3>6. Cardinality(B) \in Nat /\ Cardinality(C) \in Nat
        BY <3>4, <3>5, FS_CardinalityType
    <3>7. entries'[p][k] = entries[p][k] - 1 /\ entries[p][k] \in Nat
        BY <1>2, <1>7, <2>1 DEF CountTypes
    <3>8. Cardinality(C) <= entries'[p][k]
        BY <3>3, <3>4, <3>5, <3>6, <3>7
    <3> QED BY <3>5, <3>8 DEF Enough, C
  <2>2. CASE ~(p = o /\ k = m.key)
    <3>1. entries'[p][k] >= entries[p][k]
        BY <1>2, <1>3, <1>7, <2>2 DEF CountTypes
    <3> QED BY <1>5, <3>1, EnoughStays DEF EntryInv
  <2> QED BY <2>1, <2>2
<1> QED BY <1>1, <1>6, <1>7

\* A group that is being deleted has no subscriptions.
LEMMA EntryDeleteGroup ==
    ASSUME Structure, CountTypes, CountTypes', EntryInv, NEW s \in Sessions, DeleteGroup(s)
    PROVE  EntryInv'
<1> DEFINE o == step[s].group
           left == {k \in Keys : entries[o][k] > 0}
<1>1. /\ step[s].at = "delete" /\ UNCHANGED <<subs, client>>
      /\ entries' = entries \/ entries' = [entries EXCEPT ![o][Min(left)] = @ - 1]
    BY DEF DeleteGroup
<1>2. o \in Sessions /\ subs[o] = {}
  <2>1. o \in Sessions /\ members[o] = {}
      BY <1>1, StepFields DEF Structure, ResourceTypes, DeleteStates, GroupInv
  <2> QED BY <2>1 DEF Structure, SubsInv
<1> SUFFICES ASSUME NEW p \in Sessions, NEW k \in Keys PROVE Enough(p, k)'
    BY DEF EntryInv
<1>3. Settled(p, k)' = Settled(p, k)
    BY <1>1 DEF Settled, Pending
<1>4. CASE p = o
  <2>1. Settled(p, k)' = {}
      BY <1>1, <1>2, <1>4 DEF Settled
  <2>2. entries'[p][k] >= 0
      BY DEF CountTypes
  <2> QED BY <2>1, <2>2, FS_EmptySet DEF Enough
<1>5. CASE p # o
  <2>1. entries'[p][k] >= entries[p][k]
      BY <1>1, <1>2, <1>5 DEF CountTypes
  <2> QED BY <1>3, <2>1, EnoughStays DEF EntryInv
<1> QED BY <1>4, <1>5

\* Every step leaves enough entries.
LEMMA EntryStep ==
    Structure /\ CountTypes /\ CountTypes' /\ EntryInv /\ [ResourcesNext]_allVars => EntryInv'
<1> SUFFICES ASSUME Structure, CountTypes, CountTypes', EntryInv, [ResourcesNext]_allVars
             PROVE  EntryInv'
    OBVIOUS
<1>1. ASSUME UNCHANGED <<client, entries>>, \A o \in Sessions : subs'[o] \subseteq subs[o]
      PROVE  EntryInv'
  <2> SUFFICES ASSUME NEW p \in Sessions, NEW k \in Keys PROVE Enough(p, k)'
      BY DEF EntryInv
  <2>1. Settled(p, k)' \subseteq Settled(p, k)
      BY <1>1 DEF Settled, Pending
  <2>2. entries'[p][k] >= entries[p][k]
      BY <1>1 DEF CountTypes
  <2> QED BY <2>1, <2>2, EnoughStays DEF EntryInv
<1>2. CASE UNCHANGED allVars
    BY <1>1, <1>2 DEF allVars, subsVars
<1>3. CASE Publishing
    BY <1>1, <1>3, LocksAndChanges DEF lifeVars
<1>4. ASSUME NEW s \in Sessions, SessionStep(s) PROVE EntryInv'
  <2>1. CASE \/ LogonSession(s) \/ AddRoute(s) \/ StartEnd(s) \/ DeleteIfOrphaned(s) \/ Gone(s)
             \/ \E o \in Objects : LockSteps(s, o)
      BY <1>1, <2>1, LocksAndChanges
         DEF LogonSession, AddRoute, StartEnd, DeleteIfOrphaned, Gone, subsVars, lifeVars
  <2>2. CASE ReleaseSession(s)
    <3>1. \A o \in Sessions : subs'[o] \subseteq subs[o]
        BY <2>2 DEF ReleaseSession, Structure, ResourceTypes
    <3> QED BY <1>1, <2>2, <3>1 DEF ReleaseSession
  <2> QED BY <1>4, <2>1, <2>2, EntryAddAdvise, EntryNoted, EntryDelAdvise, EntryDeleteGroup
          DEF SessionStep
<1> QED BY <1>2, <1>3, <1>4 DEF ResourcesNext

-------------------------------------------------------------------------------
(* A change that is made known.                                            *)

\* The client has been promised this change, and its group will still be asked.
Due(c) ==
    /\ client[c].at = "active" /\ ~client[c].ignored /\ session[client[c].s] = "live"
    /\ Match(client[c], pub.key, pub.event) /\ GroupOf[client[c].s] \in pub.todo

PubInv ==
    /\ pub \in {Off} \cup Publications
    /\ pub # Off => \A c \in pub.want : Due(c)

\* A promised subscription is with the listed group, and there is a route to it.
LEMMA PromiseHasRoute ==
    ASSUME Structure, CountTypes, RouteInv, EntryInv, NEW c \in Conns, NEW key \in Keys,
           NEW event \in Events, c \in Promised(key, event)
    PROVE  routes[StoreOf[key]][GroupOf[client[c].s]] > 0
<1> DEFINE s == client[c].s
           o == grp[s]
           k == client[c].key
           g == GroupOf[s]
           st == StoreOf[key]
<1>1. /\ client[c].at = "active" /\ ~client[c].ignored /\ session[s] = "live"
      /\ event \in client[c].mask /\ k \in {key, StoreOf[key]}
    BY DEF Promised, Match
<1>2. client[c] \in Registered
    BY <1>1, ClientFields DEF Structure, ResourceTypes
<1>3. s \in Sessions /\ k \in Keys /\ client[c].mask \in SUBSET Events
    BY <1>2 DEF Registered
<1>4. o \in Sessions /\ GroupOf[o] = g /\ g \in GroupIds
    BY <1>1, <1>3, GroupOfAssumption DEF Structure, LifeInv
<1>5. StoreOf[k] = st /\ st \in Stores
    BY <1>1, StoreOfAssumption DEF Stores
<1>6. SubOf(c) \in Settled(o, k)
  <2>1. SubOf(c) \in subs[o]
      BY <1>1 DEF Structure, SubsInv, Asking
  <2>2. SubOf(c).key = k /\ SubOf(c).conn = c /\ SubOf(c).mask = client[c].mask
      BY DEF SubOf
  <2>3. Routed(client[c].mask)
      BY <1>1 DEF Routed, Events
  <2>4. ~Pending(SubOf(c))
      BY <1>1, <2>2 DEF Pending
  <2> QED BY <2>1, <2>2, <2>3, <2>4 DEF Settled
<1>7. entries[o][k] > 0
  <2>1. IsFiniteSet(Settled(o, k)) /\ Cardinality(Settled(o, k)) <= entries[o][k]
      BY <1>3, <1>4 DEF EntryInv, Enough
  <2>2. Cardinality(Settled(o, k)) \in Nat /\ Cardinality(Settled(o, k)) # 0
      BY <1>6, <2>1, FS_CardinalityType, FS_EmptySet
  <2>3. entries[o][k] \in Nat
      BY <1>3, <1>4 DEF CountTypes
  <2> QED BY <2>1, <2>2, <2>3
<1>8. <<<<o, k>>, 1>> \in Noted(entries, st, g)
  <2>1. 1 \in 1 .. entries[o][k]
      BY <1>3, <1>4, <1>7 DEF CountTypes
  <2> QED BY <1>3, <1>4, <1>5, <2>1, NotedMember
<1>9. /\ IsFiniteSet(Noted(entries, st, g)) /\ IsFiniteSet(Entering(st, g))
      /\ routes[st][g] = Cardinality(Noted(entries, st, g)) + Cardinality(Entering(st, g))
    BY <1>4, <1>5 DEF RouteInv, RoutesBalanced
<1>10. /\ Cardinality(Noted(entries, st, g)) \in Nat /\ Cardinality(Noted(entries, st, g)) # 0
       /\ Cardinality(Entering(st, g)) \in Nat
    BY <1>8, <1>9, FS_CardinalityType, FS_EmptySet
<1> QED BY <1>9, <1>10


\* At the start there are no subscriptions.
LEMMA EntryInit == ResourcesInit => EntryInv
<1> SUFFICES ASSUME ResourcesInit, NEW o \in Sessions, NEW k \in Keys PROVE Enough(o, k)
    BY DEF EntryInv
<1>1. Settled(o, k) = {} /\ entries[o][k] = 0
    BY DEF ResourcesInit, SubsInit, Settled
<1> QED BY <1>1, FS_EmptySet DEF Enough

\* A publication that is under way is one, and Off is none.
LEMMA PublicationFields ==
    ASSUME PubInv, pub # Off
    PROVE  /\ pub \in Publications /\ pub.key \in Keys /\ pub.event \in Events
           /\ pub.todo \in SUBSET GroupIds /\ pub.want \in SUBSET Conns
           /\ \A c \in pub.want : Due(c)
BY DEF PubInv, Publications

\* A step that takes no client out of its session leaves what is due, if it takes those whose
\* subscription it changes off the list.
LEMMA PubStays ==
    ASSUME PubInv, pub = Off => pub' = Off,
           NEW W \in SUBSET Conns,
           pub # Off => pub' = [pub EXCEPT !.want = W] /\ W \subseteq pub.want,
           \A c \in Conns : pub # Off /\ c \in W =>
               client'[c] = client[c] /\ session'[client[c].s] = session[client[c].s]
    PROVE  PubInv'
<1>1. CASE pub = Off
    BY <1>1 DEF PubInv
<1>2. CASE pub # Off
  <2>1. pub \in Publications /\ (\A c \in pub.want : Due(c))
      BY <1>2, PublicationFields
  <2>2. pub' \in Publications /\ pub'.want = W /\ pub'.key = pub.key /\ pub'.event = pub.event
        /\ pub'.todo = pub.todo
      BY <1>2, <2>1 DEF Publications
  <2>3. ASSUME NEW c \in W PROVE Due(c)'
    <3>1. Due(c) /\ client'[c] = client[c] /\ session'[client[c].s] = session[client[c].s]
        BY <1>2, <2>1, <2>3
    <3> QED BY <2>2, <3>1 DEF Due, Match
  <2> QED BY <2>2, <2>3 DEF PubInv
<1> QED BY <1>1, <1>2

\* The ids of the groups are collected while every subscription that counts has a route.
LEMMA PubPublish ==
    ASSUME Structure, CountTypes, RouteInv, EntryInv, PubInv, NEW key \in Keys,
           NEW event \in Events, Publish(key, event)
    PROVE  PubInv'
<1> DEFINE todo == {g \in GroupIds : routes[StoreOf[key]][g] > 0}
<1>1. /\ pub' = [at |-> "deliver", key |-> key, event |-> event, todo |-> todo,
                 want |-> Promised(key, event)]
      /\ UNCHANGED <<session, client>>
    BY DEF Publish, vars
<1>2. Promised(key, event) \in SUBSET Conns /\ todo \in SUBSET GroupIds
    BY DEF Promised
<1>3. pub' \in Publications /\ pub'.want = Promised(key, event) /\ pub'.key = key
      /\ pub'.event = event /\ pub'.todo = todo
    BY <1>1, <1>2 DEF Publications
<1>4. ASSUME NEW c \in Promised(key, event) PROVE Due(c)'
  <2>1. c \in Conns /\ routes[StoreOf[key]][GroupOf[client[c].s]] > 0
      BY <1>2, PromiseHasRoute
  <2>2. /\ client[c].at = "active" /\ ~client[c].ignored /\ session[client[c].s] = "live"
        /\ Match(client[c], key, event)
      BY DEF Promised
  <2>3. client[c] \in Registered
      BY <2>1, <2>2, ClientFields DEF Structure, ResourceTypes
  <2>4. GroupOf[client[c].s] \in todo
      BY <2>1, <2>3, GroupOfAssumption DEF Registered
  <2> QED BY <1>1, <1>3, <2>2, <2>4 DEF Due
<1> QED BY <1>3, <1>4 DEF PubInv

\* The group that is asked is the one that the subscription is with.
LEMMA PubDeliver ==
    ASSUME Structure, PubInv, NEW g \in GroupIds, Deliver(g)
    PROVE  PubInv'
<1> DEFINE o == groups[g]
           got == IF o = NoSession THEN {}
                  ELSE {m.conn : m \in {x \in subs[o] : Match(x, pub.key, pub.event)}}
<1>0. ResourceTypes /\ LifeInv /\ GroupInv /\ SubsInv
    BY DEF Structure
<1>1. /\ pub # Off /\ pub' = [pub EXCEPT !.todo = @ \ {g}, !.want = @ \ got]
      /\ UNCHANGED <<session, client>>
    BY DEF Deliver, vars
<1>2. pub \in Publications /\ \A c \in pub.want : Due(c)
    BY <1>1, PublicationFields
<1>3. /\ pub' \in Publications /\ pub'.want = pub.want \ got /\ pub'.key = pub.key
      /\ pub'.event = pub.event /\ pub'.todo = pub.todo \ {g}
    BY <1>1, <1>2 DEF Publications
<1>4. ASSUME NEW c \in pub.want, c \notin got PROVE GroupOf[client[c].s] # g
  <2> SUFFICES ASSUME GroupOf[client[c].s] = g PROVE c \in got
      BY <1>4
  <2>1. Due(c) /\ c \in Conns
      BY <1>2 DEF Publications
  <2>2. client[c] \in Registered
      BY <1>0, <2>1, ClientFields DEF ResourceTypes, Due
  <2>3. client[c].s \in Sessions /\ session[client[c].s] = "live"
      BY <2>1, <2>2 DEF Registered, Due
  <2>4. grp[client[c].s] \in Sessions /\ GroupOf[grp[client[c].s]] = g
      BY <1>0, <2>3 DEF LifeInv
  <2>5. client[c].s \in members[grp[client[c].s]]
      BY <1>0, <2>3, <2>4 DEF GroupInv, Joined
  <2>6. o = grp[client[c].s] /\ o # NoSession
      BY <1>0, <2>4, <2>5, NoSessionAssumption DEF GroupInv
  <2>7. SubOf(c) \in subs[o]
      BY <1>0, <2>1, <2>3, <2>6 DEF SubsInv, Asking, Due
  <2>8. Match(SubOf(c), pub.key, pub.event) /\ SubOf(c).conn = c
      BY <2>1 DEF Due, Match, SubOf
  <2> QED BY <2>6, <2>7, <2>8
<1>5. ASSUME NEW c \in pub.want \ got PROVE Due(c)'
    BY <1>1, <1>2, <1>3, <1>4 DEF Due, Match
<1> QED BY <1>3, <1>5 DEF PubInv

\* Every step keeps what is due.
LEMMA PubStep ==
    /\ Structure /\ CountTypes /\ RouteInv /\ EntryInv /\ PubInv /\ [ResourcesNext]_allVars
    => PubInv'
<1> SUFFICES ASSUME Structure, CountTypes, RouteInv, EntryInv, PubInv, [ResourcesNext]_allVars
             PROVE  PubInv'
    OBVIOUS
<1>0. ResourceTypes /\ LifeInv /\ AskInv
    BY DEF Structure
<1>1. pub # Off =>
        /\ pub \in Publications /\ pub.want \in SUBSET Conns
        /\ \A c \in pub.want : /\ client[c].at = "active" /\ session[client[c].s] = "live"
                               /\ client[c].s \in Sessions
  <2> SUFFICES ASSUME pub # Off, NEW c \in pub.want PROVE
        /\ pub \in Publications /\ pub.want \in SUBSET Conns
        /\ client[c].at = "active" /\ session[client[c].s] = "live" /\ client[c].s \in Sessions
      BY PublicationFields
  <2>1. pub \in Publications /\ pub.want \in SUBSET Conns /\ Due(c)
      BY PublicationFields
  <2>2. client[c] \in Registered
      BY <1>0, <2>1, ClientFields DEF ResourceTypes, Due
  <2> QED BY <2>1, <2>2 DEF Due, Registered
<1>2. ASSUME UNCHANGED pub,
             \A c \in Conns : client[c].at = "active" /\ session[client[c].s] = "live" =>
                 client'[c] = client[c] /\ session'[client[c].s] = "live"
      PROVE  PubInv'
  <2> DEFINE W == IF pub = Off THEN {} ELSE pub.want
  <2>1. W \in SUBSET Conns /\ (pub # Off => pub = [pub EXCEPT !.want = W])
      BY <1>1 DEF Publications
  <2>2. \A c \in Conns : pub # Off /\ c \in W =>
            client'[c] = client[c] /\ session'[client[c].s] = session[client[c].s]
      BY <1>1, <1>2
  <2> HIDE DEF W
  <2>3. pub # Off => W \subseteq pub.want
      BY DEF W
  <2> QED BY <1>2, <2>1, <2>2, <2>3, PubStays
<1>3. CASE UNCHANGED allVars
    BY <1>2, <1>3 DEF allVars, subsVars, vars
<1>4. CASE Publishing
  <2>1. CASE Published
      BY <2>1 DEF Published, PubInv
  <2> QED BY <1>4, <2>1, PubPublish, PubDeliver DEF Publishing, Events
<1>5. ASSUME NEW s \in Sessions, SessionStep(s) PROVE PubInv'
  <2>1. CASE LogonSession(s)
      BY <1>0, <1>2, <2>1 DEF LogonSession, Logon, ResourceTypes
  <2>2. ASSUME NEW c \in Conns, NEW i \in Interests, AddAdvise(s, c, i) PROVE PubInv'
    <3>1. ~(client[c].at = "active" /\ session[client[c].s] = "live")
        BY <2>2 DEF AddAdvise, MayRegister, Free
    <3> QED BY <1>0, <1>2, <2>2, <3>1 DEF AddAdvise, ResourceTypes, vars
  <2>3. CASE AddEntry(s)
    <3>1. step[s].conn \in Conns /\ client[step[s].conn].at = "asked"
        BY <1>0, <2>3, StepFields DEF AddEntry, ResourceTypes, AskStates, AskInv
    <3> QED BY <1>0, <1>2, <2>3, <3>1 DEF AddEntry, Confirm, ResourceTypes, vars
  <2>4. ASSUME NEW c \in Conns, DelAdvise(s, c) PROVE PubInv'
    <3> DEFINE W == IF pub = Off THEN {} ELSE pub.want \ {c}
    <3>1. /\ UNCHANGED session /\ client' = [client EXCEPT ![c] = [at |-> "dropped"]]
          /\ pub' = IF pub = Off THEN Off ELSE [pub EXCEPT !.want = @ \ {c}]
        BY <2>4 DEF DelAdvise, vars
    <3>2. W \in SUBSET Conns /\ (pub # Off => W \subseteq pub.want /\ c \notin W)
        BY <1>1
    <3>3. pub # Off => pub' = [pub EXCEPT !.want = W]
        BY <1>1, <3>1 DEF Publications
    <3>4. \A d \in Conns : pub # Off /\ d \in W =>
              client'[d] = client[d] /\ session'[client[d].s] = session[client[d].s]
        BY <1>0, <3>1, <3>2 DEF ResourceTypes
    <3> HIDE DEF W
    <3> QED BY <3>1, <3>2, <3>3, <3>4, PubStays
  <2>5. CASE StartEnd(s)
    <3> DEFINE W == IF pub = Off THEN {} ELSE {c \in pub.want : client[c].s # s}
    <3>1. /\ session' = [session EXCEPT ![s] = "ending"] /\ UNCHANGED client
          /\ pub' = IF pub = Off THEN Off ELSE [pub EXCEPT !.want = {c \in @ : client[c].s # s}]
        BY <2>5 DEF StartEnd, EndSession
    <3>2. W \in SUBSET Conns /\ (pub # Off => W \subseteq pub.want)
        BY <1>1
    <3>3. pub # Off => pub' = [pub EXCEPT !.want = W]
        BY <1>1, <3>1 DEF Publications
    <3>4. \A d \in Conns : pub # Off /\ d \in W =>
              client'[d] = client[d] /\ session'[client[d].s] = session[client[d].s]
        BY <1>0, <1>1, <3>1 DEF ResourceTypes
    <3> HIDE DEF W
    <3> QED BY <3>1, <3>2, <3>3, <3>4, PubStays
  <2>6. CASE Gone(s)
    <3>1. /\ session[s] = "ending" /\ session' = [session EXCEPT ![s] = "gone"]
          /\ UNCHANGED <<client, pub>>
        BY <2>6 DEF Gone, SessionGone, subsVars
    <3> QED BY <1>0, <1>2, <3>1 DEF ResourceTypes
  <2>7. CASE \/ AddRoute(s) \/ ReleaseSession(s) \/ DeleteIfOrphaned(s) \/ DeleteGroup(s)
      BY <1>2, <2>7 DEF AddRoute, ReleaseSession, DeleteIfOrphaned, DeleteGroup, vars
  <2>8. CASE \E o \in Objects : LockSteps(s, o)
      BY <1>2, <2>8, LocksAndChanges DEF LockSteps, subsVars, lifeVars
  <2> QED BY <1>5, <2>1, <2>2, <2>3, <2>4, <2>5, <2>6, <2>7, <2>8 DEF SessionStep
<1> QED BY <1>3, <1>4, <1>5 DEF ResourcesNext

-------------------------------------------------------------------------------
(* The theorems.                                                           *)

\* Everything the proofs need at once: none of its parts is inductive without the others
\* before it.
ResourcesInv == Structure /\ CountTypes /\ RouteInv /\ EntryInv /\ PubInv

\* The whole invariant holds in every reachable state.
THEOREM ResourcesInvariant == ResourcesSpec => []ResourcesInv
<1>1. ResourcesInit => ResourcesInv
  <2>1. ResourcesInit => PubInv
      BY DEF ResourcesInit, SubsInit, PubInv
  <2> QED BY <2>1, StructureInit, RouteInit, EntryInit DEF ResourcesInv
<1>2. ResourcesInv /\ [ResourcesNext]_allVars => ResourcesInv'
    BY StructureStep, RouteStep, EntryStep, PubStep DEF ResourcesInv
<1> QED BY <1>1, <1>2, PTL DEF ResourcesSpec

\* The manager's entries for a store and a group id are as many as the groups with that id
\* will take back, for any number of sessions, groups, connections and stores.
THEOREM RoutesStayBalanced == ResourcesSpec => []RoutesBalanced
<1>1. ResourcesInv => RoutesBalanced
    BY DEF ResourcesInv, RouteInv
<1> QED BY <1>1, ResourcesInvariant, PTL

\* When the last group has been asked, every confirmed subscription to the change has been
\* told of it, withdrawn, or has lost its session.
THEOREM ChangesReachEveryone == ResourcesSpec => []NothingMissed
<1>1. ResourcesInv => NothingMissed
  <2> SUFFICES ASSUME ResourcesInv, pub # Off, pub.todo = {}, NEW c \in pub.want PROVE FALSE
      BY PublicationFields DEF NothingMissed, ResourcesInv
  <2>1. Due(c)
      BY PublicationFields DEF ResourcesInv
  <2> QED BY <2>1 DEF Due
<1> QED BY <1>1, ResourcesInvariant, PTL

===============================================================================
