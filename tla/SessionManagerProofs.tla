------------------------ MODULE SessionManagerProofs ------------------------
(***************************************************************************)
(* Sessions are deleted once and never under a call, and never lose their  *)
(* group, for any finite set of workers and any sets of sessions and group *)
(* ids.                                                                    *)
(***************************************************************************)
EXTENDS SessionManager, FiniteSetTheorems, TLAPS

\* The steps of a logon in which the new session is not yet on the map.
Creating == {"upgrade", "register"}

\* The steps of the delete of a session, from its destructor on.
Deleting == {"release", "unsubscribe", "orphan", "orphanLock"}

\* What a thread knows at each of its steps: the session it has locked, the one it creates,
\* deletes or looks up again by its id, and those it still has to delete.
Shaped(r) ==
    /\ r.at = "idle" => r = Idle
    /\ r.at \in {"upgrade", "register", "busy", "remove"} =>
          r.s # None /\ r.held = None /\ r.todo = {}
    /\ r.at \in {"work", "unbusy"} => r.held # None /\ r.s = None /\ r.todo = {}
    /\ r.at = "shutdown" => r.s = None
    /\ r.at \in Deleting => r.s # None /\ r.s \notin r.todo
    /\ r.at # "orphanLock" => r.id = NoGid

\* Every thread knows what its step needs.
Shape == \A t \in Threads : Shaped(th[t])

\* The main thread takes part only in the shutdown.
MainWaits == ~stopped => th[MainThread].at = "idle"

\* Nobody but the one logon that creates it knows a session that is not yet there.
Unborn(s) ==
    /\ s \notin sessions
    /\ \A t \in Threads :
          th[t].held # s /\ s \notin th[t].todo /\ (th[t].s = s => th[t].at \in Creating)
    /\ \A t, u \in Threads : th[t].s = s /\ th[u].s = s => t = u

\* Only a logon has a session that does not exist yet.
Fresh ==
    /\ \A s \in Sids : obj[s] = "none" => Unborn(s)
    /\ \A t \in Threads : th[t].at \in Creating => obj[th[t].s] = "none"

\* No session is locked while it is deleted.
NotHeld == \A t, u \in Threads : th[t].at \in Deleting => th[u].held # th[t].s

\* A session has joined its group, and may have left it since.
InGroup(s) == obj[s] # "none" \/ \E t \in Threads : th[t].s = s /\ th[t].at = "register"

\* A session has a group from the end of its logon's group search on; a group is named after
\* the session it was created for.
GroupFresh ==
    /\ \A s \in Sids : IF InGroup(s) THEN group[s] # None ELSE group[s] = None /\ gobj[s] = "none"
    /\ \A s \in Sids : gobj[s] # "none" => group[s] = s
    /\ \A t \in Threads : th[t].at = "upgrade" => gid[th[t].s] \in Gids

\* Sessions, groups and the map of groups agree about the group ids.
GroupIds ==
    /\ \A s \in Sids : group[s] # None =>
          /\ gobj[group[s]] # "none" /\ gid[group[s]] = gid[s]
          /\ gid[s] = NoGid => group[s] = s
    /\ \A g \in Gids : groups[g] # None => gobj[groups[g]] = "live" /\ gid[groups[g]] = g
    /\ \A s, o \in Sids : s \in members[o] => group[s] = o

\* DeleteIfOrphaned has the id of the session's own group, or the group was already deleted
\* when the id was read from it.
OrphanHasId ==
    \A t \in Threads : th[t].at = "orphanLock" =>
          th[t].id = gid[th[t].s] \/ gobj[group[th[t].s]] = "freed"

\* The threads that have a session locked.
Holders(s) == {t \in Threads : th[t].held = s}

\* The lock count of a session is the number of threads that have it locked.
Counted == \A s \in Sids : ref[s] = Cardinality(Holders(s))

\* A locked session is in memory.
LockedExists == \A t \in Threads : th[t].held # None => obj[th[t].held] \in {"live", "leaked"}

\* The inductive invariant.
IInv ==
    /\ TypeOK /\ Shape /\ MainWaits /\ Fresh /\ LockedExists /\ Counted /\ DeletedOnce /\ NotHeld
    /\ GroupFresh /\ GroupIds /\ OrphanHasId /\ SessionKeepsGroup /\ ListedGroupHasOwner

\* What a thread knows, field by field.
State(at, held, s, todo, id) == [at |-> at, held |-> held, s |-> s, todo |-> todo, id |-> id]

\* One thread takes a step, from one place in the code to another.
Moves(t, from, to) ==
    /\ th[t].at = from /\ to \in ThreadState
    /\ th' = [th EXCEPT ![t] = to]

\* How a step of the module is brought into that form.
LEMMA MovesTo ==
    ASSUME TypeOK, NEW t \in Threads, NEW from, NEW r, NEW to \in ThreadState,
           th[t].at = from, th' = [th EXCEPT ![t] = r], th'[t] = to
    PROVE  Moves(t, from, to)
BY DEF Moves

\* A step keeps Shape if what its thread knows after it fits where that thread is.
LEMMA ShapeKept ==
    ASSUME TypeOK, Shape, NEW t \in Threads, NEW from, NEW to, Moves(t, from, to), Shaped(to)
    PROVE  Shape'
BY DEF Shape, Moves

\* Finitely many threads have a session locked.
LEMMA HoldersFinite == \A s \in Sids : IsFiniteSet(Holders(s))
<1>1. IsFiniteSet(Threads)
  <2>1. Threads = (Workers \cup {Cleaner}) \cup {MainThread}
    BY DEF Threads
  <2> QED BY <2>1, WorkersFinite, FS_AddElement
<1> QED BY <1>1, FS_Subset DEF Holders

\* A step that locks and unlocks nothing keeps the lock counts.
LEMMA CountKeep ==
    ASSUME Counted, ref' = ref, \A u \in Threads : th'[u].held = th[u].held
    PROVE  Counted'
<1>1. \A s \in Sids : Holders(s)' = Holders(s)
    BY DEF Holders
<1> QED BY <1>1 DEF Counted

\* BTSession::Lock adds one to the count when its thread becomes a holder.
LEMMA CountUp ==
    ASSUME TypeOK, Counted, NEW t \in Threads, NEW s \in Sids,
           ref' = [ref EXCEPT ![s] = @ + 1], th[t].held # s, th[t].held \notin Sids,
           th'[t].held = s, \A u \in Threads \ {t} : th'[u].held = th[u].held
    PROVE  Counted' /\ ref' \in [Sids -> Nat]
<1>1. Holders(s)' = Holders(s) \cup {t} /\ t \notin Holders(s)
    BY DEF Holders
<1>2. \A r \in Sids \ {s} : Holders(r)' = Holders(r)
    BY DEF Holders
<1>3. Cardinality(Holders(s)') = Cardinality(Holders(s)) + 1
    BY <1>1, HoldersFinite, FS_AddElement
<1> QED BY <1>2, <1>3 DEF Counted, TypeOK

\* BTSession::Unlock takes one off when its thread no longer is a holder.
LEMMA CountDown ==
    ASSUME TypeOK, Counted, NEW t \in Threads, NEW s \in Sids, th[t].held = s,
           ref' = [ref EXCEPT ![s] = @ - 1], th'[t].held \notin Sids,
           \A u \in Threads \ {t} : th'[u].held = th[u].held
    PROVE  Counted' /\ ref' \in [Sids -> Nat]
<1>1. Holders(s)' = Holders(s) \ {t} /\ t \in Holders(s)
    BY DEF Holders
<1>2. \A r \in Sids \ {s} : Holders(r)' = Holders(r)
    BY DEF Holders
<1>3. Cardinality(Holders(s)') = Cardinality(Holders(s)) - 1
    BY <1>1, HoldersFinite, FS_RemoveElement
<1>4. Cardinality(Holders(s)') \in Nat
    BY <1>1, HoldersFinite, FS_RemoveElement, FS_CardinalityType
<1> QED BY <1>2, <1>3, <1>4 DEF Counted, TypeOK

\* The sessions that SessionKeepsGroup is about.
Used(s) ==
    \/ s \in sessions
    \/ \E t \in Threads :
          \/ th[t].held = s \/ s \in th[t].todo
          \/ th[t].s = s /\ th[t].at \in {"register", "release"}

\* A session in use is a member of its group, and a session under deletion still knows it.
LEMMA UsedInGroup ==
    ASSUME IInv
    PROVE  /\ \A s \in Sids : Used(s) =>
                  group[s] \in Sids /\ gobj[group[s]] = "live" /\ s \in members[group[s]]
           /\ \A t \in Threads : th[t].at \in Deleting
                  => th[t].s \in Sids /\ group[th[t].s] \in Sids
<1> USE IdsAssumption DEF IInv
<1>1. \A s \in Sids : InGroup(s) => group[s] \in Sids
    BY DEF GroupFresh, TypeOK
<1>2. ASSUME NEW s \in Sids, Used(s) PROVE InGroup(s)
    BY <1>2 DEF Used, InGroup, Fresh, Unborn, Creating
<1>3. ASSUME NEW t \in Threads, th[t].at \in Deleting PROVE th[t].s \in Sids /\ InGroup(th[t].s)
    BY <1>3 DEF InGroup, Fresh, Unborn, Creating, Deleting, Shape, Shaped, TypeOK, ThreadState
<1> QED BY <1>1, <1>2, <1>3 DEF SessionKeepsGroup, Used

\* Nothing refers to the group of a session that has not joined one.
LEMMA NotYetInGroup ==
    ASSUME IInv, NEW s \in Sids, obj[s] = "none",
           \A t \in Threads : th[t].s = s => th[t].at # "register"
    PROVE  /\ group[s] = None /\ gobj[s] = "none"
           /\ \A r \in Sids : group[r] # s /\ s \notin members[r] /\ r \notin members[s]
           /\ \A g \in Gids : groups[g] # s
<1> USE IdsAssumption DEF IInv
<1>1. group[s] = None /\ gobj[s] = "none"
    BY DEF GroupFresh, InGroup
<1>2. \A r \in Sids : group[r] # s
    BY <1>1 DEF GroupIds
<1> QED BY <1>1, <1>2 DEF GroupIds

\* The step LogonFind without a group id: the session gets a group of its own.
LEMMA LogonNewInv ==
    ASSUME IInv, NEW t \in Threads, NEW s \in Sids, NEW g \in Gids \cup {NoGid}, LogonFind(t, s,
           g), g = NoGid
    PROVE  IInv'
<1> USE IdsAssumption, ThreadsAssumption DEF IInv
<1>1. /\ t \in Workers /\ obj[s] = "none" /\ (\A u \in Threads : th[u].s # s) /\ ~stopped
      /\ gid' = [gid EXCEPT ![s] = NoGid] /\ gobj' = [gobj EXCEPT ![s] = "live"]
      /\ group' = [group EXCEPT ![s] = s] /\ members' = [members EXCEPT ![s] = @ \cup {s}]
      /\ UNCHANGED <<sessions, obj, ref, expired, groups, stopped>>
    BY DEF LogonFind, JoinNew, Join
<1>2. Moves(t, "idle", State("register", None, s, {}, NoGid))
  <2>1. /\ th \in [Threads -> ThreadState] /\ th[t] = Idle /\ th[t].at = "idle"
       /\ sessions \subseteq Sids
    BY DEF TypeOK, Idle, LogonFind
  <2>2. th' = [th EXCEPT ![t] = [Idle EXCEPT !.at = "register", !.s = s]]
    BY <2>1 DEF LogonFind
  <2>3. th'[t] = State("register", None, s, {}, NoGid)
    BY <2>1, <2>2 DEF State, Idle
  <2>4. State("register", None, s, {}, NoGid) \in ThreadState
    BY <2>1 DEF State, ThreadState, At
  <2> QED BY <2>1, <2>2, <2>3, <2>4, MovesTo
<1>3. Counted'
    BY <1>1, <1>2, CountKeep DEF Moves, State, Shape, Shaped, Idle
<1>4. TypeOK'
    BY <1>1, <1>2, <1>3 DEF Moves, TypeOK
<1>5. Shape'
  <2>1. Shaped(State("register", None, s, {}, NoGid))
    BY <1>1, <1>2 DEF State, Shaped
  <2> QED BY <1>2, <2>1, ShapeKept
<1>6. (MainWaits /\ LockedExists /\ NotHeld)'
    BY <1>1, <1>2 DEF Moves, State, MainWaits, Shape, Shaped, LockedExists, NotHeld
<1>7. Fresh'
    BY <1>1, <1>2 DEF Moves, State, Fresh, Unborn, Creating
<1>8. DeletedOnce'
    BY <1>1, <1>2 DEF Moves, State, DeletedOnce
<1>9. GroupIds'
  <2>1. /\ group[s] = None /\ gobj[s] = "none"
        /\ \A r \in Sids : group[r] # s /\ s \notin members[r] /\ r \notin members[s]
        /\ \A f \in Gids : groups[f] # s
    BY <1>1, NotYetInGroup
  <2>2. ASSUME NEW r \in Sids, group'[r] # None
        PROVE  /\ gobj'[group'[r]] # "none" /\ gid'[group'[r]] = gid'[r]
               /\ gid'[r] = NoGid => group'[r] = r
    BY <1>1, <2>1, <2>2 DEF GroupIds, TypeOK
  <2>3. \A f \in Gids : groups'[f] # None => gobj'[groups'[f]] = "live" /\ gid'[groups'[f]] = f
    BY <1>1, <2>1 DEF GroupIds
  <2>4. \A r, o \in Sids : r \in members'[o] => group'[r] = o
    BY <1>1, <2>1 DEF GroupIds, TypeOK
  <2> QED BY <2>2, <2>3, <2>4 DEF GroupIds
<1>10. GroupFresh'
    BY <1>1, <1>2 DEF Moves, State, TypeOK, GroupFresh, InGroup
<1>11. OrphanHasId'
  <2>1. /\ group[s] = None /\ gobj[s] = "none"
        /\ \A r \in Sids : group[r] # s /\ s \notin members[r] /\ r \notin members[s]
        /\ \A f \in Gids : groups[f] # s
    BY <1>1, NotYetInGroup
  <2>2. \A u \in Threads : th[u].at = "orphanLock" => th[u].s \in Sids /\ group[th[u].s] \in Sids
    BY UsedInGroup DEF Deleting
  <2> QED BY <1>1, <1>2, <2>1, <2>2 DEF Moves, State, OrphanHasId
<1>12. SessionKeepsGroup'
    BY <1>1, <1>2 DEF Moves, State, TypeOK, SessionKeepsGroup
<1>13. ListedGroupHasOwner'
  <2>1. \A f \in Gids : groups[f] # None =>
            groups[f] \in Sids /\ members[groups[f]] \subseteq members'[groups[f]]
    BY <1>1 DEF TypeOK
  <2>2. \A u \in Threads : th[u].at \in {"unsubscribe", "orphan", "orphanLock"}
            => th'[u] = th[u] /\ group'[th[u].s] = group[th[u].s]
    <3>1. \A u \in Threads : th[u].at \in {"unsubscribe", "orphan", "orphanLock"}
              => th[u].s \in Sids
      BY UsedInGroup DEF Deleting
    <3> QED BY <1>1, <1>2, <3>1 DEF Moves
  <2> QED BY <1>1, <2>1, <2>2 DEF ListedGroupHasOwner
<1> QED BY <1>3, <1>4, <1>5, <1>6, <1>7, <1>8, <1>9, <1>10, <1>11, <1>12, <1>13

\* The step LogonFind for a group that is on the list.
LEMMA LogonJoinsInv ==
    ASSUME IInv, NEW t \in Threads, NEW s \in Sids, NEW g \in Gids \cup {NoGid}, LogonFind(t, s,
           g), g \in Gids, groups[g] # None
    PROVE  IInv'
<1> USE IdsAssumption, ThreadsAssumption DEF IInv
<1>1. /\ t \in Workers /\ obj[s] = "none" /\ (\A u \in Threads : th[u].s # s) /\ ~stopped
      /\ gid' = [gid EXCEPT ![s] = g] /\ group' = [group EXCEPT ![s] = groups[g]]
      /\ members' = [members EXCEPT ![groups[g]] = @ \cup {s}]
      /\ UNCHANGED <<sessions, obj, ref, expired, groups, gobj, stopped>>
    BY DEF LogonFind, Join
<1>2. Moves(t, "idle", State("register", None, s, {}, NoGid))
  <2>1. /\ th \in [Threads -> ThreadState] /\ th[t] = Idle /\ th[t].at = "idle"
       /\ sessions \subseteq Sids
    BY DEF TypeOK, Idle, LogonFind
  <2>2. th' = [th EXCEPT ![t] = [Idle EXCEPT !.at = "register", !.s = s]]
    BY <2>1 DEF LogonFind
  <2>3. th'[t] = State("register", None, s, {}, NoGid)
    BY <2>1, <2>2 DEF State, Idle
  <2>4. State("register", None, s, {}, NoGid) \in ThreadState
    BY <2>1 DEF State, ThreadState, At
  <2> QED BY <2>1, <2>2, <2>3, <2>4, MovesTo
<1>3. Counted'
    BY <1>1, <1>2, CountKeep DEF Moves, State, Shape, Shaped, Idle
<1>4. TypeOK'
    BY <1>1, <1>2, <1>3 DEF Moves, TypeOK
<1>5. Shape'
  <2>1. Shaped(State("register", None, s, {}, NoGid))
    BY <1>1, <1>2 DEF State, Shaped
  <2> QED BY <1>2, <2>1, ShapeKept
<1>6. (MainWaits /\ LockedExists /\ NotHeld)'
    BY <1>1, <1>2 DEF Moves, State, MainWaits, Shape, Shaped, LockedExists, NotHeld
<1>7. Fresh'
    BY <1>1, <1>2 DEF Moves, State, Fresh, Unborn, Creating
<1>8. DeletedOnce'
    BY <1>1, <1>2 DEF Moves, State, DeletedOnce
<1>9. GroupIds'
  <2>1. /\ group[s] = None /\ gobj[s] = "none"
        /\ \A r \in Sids : group[r] # s /\ s \notin members[r] /\ r \notin members[s]
        /\ \A f \in Gids : groups[f] # s
    BY <1>1, NotYetInGroup
  <2>2. ASSUME NEW r \in Sids, group'[r] # None
        PROVE  /\ gobj'[group'[r]] # "none" /\ gid'[group'[r]] = gid'[r]
               /\ gid'[r] = NoGid => group'[r] = r
    BY <1>1, <2>1, <2>2 DEF GroupIds, TypeOK
  <2>3. \A f \in Gids : groups'[f] # None => gobj'[groups'[f]] = "live" /\ gid'[groups'[f]] = f
    BY <1>1, <2>1 DEF GroupIds
  <2>4. \A r, o \in Sids : r \in members'[o] => group'[r] = o
    BY <1>1, <2>1 DEF GroupIds, TypeOK
  <2> QED BY <2>2, <2>3, <2>4 DEF GroupIds
<1>10. GroupFresh'
    BY <1>1, <1>2 DEF Moves, State, TypeOK, GroupFresh, InGroup
<1>11. OrphanHasId'
    BY <1>1, <1>2 DEF Moves, State, Deleting, OrphanHasId
<1>12. SessionKeepsGroup'
  <2>1. \A r \in Sids \ {s} : Used(r)' => Used(r)
    BY <1>1, <1>2 DEF Moves, State, Used
  <2>2. \A r \in Sids : Used(r) =>
            group[r] \in Sids /\ gobj[group[r]] = "live" /\ r \in members[group[r]]
    BY UsedInGroup
  <2>3. groups[g] \in Sids /\ gobj[groups[g]] = "live"
    BY DEF GroupIds, TypeOK
  <2>4. \A r \in Sids : Used(r)' => gobj'[group'[r]] = "live" /\ r \in members'[group'[r]]
    BY <1>1, <2>1, <2>2, <2>3 DEF TypeOK
  <2> QED BY <2>4 DEF SessionKeepsGroup, Used
<1>13. ListedGroupHasOwner'
  <2>1. \A f \in Gids : groups[f] # None =>
            groups[f] \in Sids /\ members[groups[f]] \subseteq members'[groups[f]]
    BY <1>1 DEF TypeOK
  <2>2. \A u \in Threads : th[u].at \in {"unsubscribe", "orphan", "orphanLock"}
            => th'[u] = th[u] /\ group'[th[u].s] = group[th[u].s]
    <3>1. \A u \in Threads : th[u].at \in {"unsubscribe", "orphan", "orphanLock"}
              => th[u].s \in Sids
      BY UsedInGroup DEF Deleting
    <3> QED BY <1>1, <1>2, <3>1 DEF Moves
  <2> QED BY <1>1, <2>1, <2>2 DEF ListedGroupHasOwner
<1> QED BY <1>3, <1>4, <1>5, <1>6, <1>7, <1>8, <1>9, <1>10, <1>11, <1>12, <1>13

\* The step LogonFind for a group that is not on the list: the lock is released.
LEMMA LogonWaitsInv ==
    ASSUME IInv, NEW t \in Threads, NEW s \in Sids, NEW g \in Gids \cup {NoGid}, LogonFind(t, s,
           g), g \in Gids, groups[g] = None
    PROVE  IInv'
<1> USE IdsAssumption, ThreadsAssumption DEF IInv
<1>1. /\ t \in Workers /\ obj[s] = "none" /\ (\A u \in Threads : th[u].s # s) /\ ~stopped
      /\ gid' = [gid EXCEPT ![s] = g]
      /\ UNCHANGED <<sessions, obj, ref, expired, group, groups, gobj, members, stopped>>
    BY DEF LogonFind
<1>2. Moves(t, "idle", State("upgrade", None, s, {}, NoGid))
  <2>1. /\ th \in [Threads -> ThreadState] /\ th[t] = Idle /\ th[t].at = "idle"
       /\ sessions \subseteq Sids
    BY DEF TypeOK, MainWaits, Shape, Shaped, Idle, LogonFind
  <2>2. th' = [th EXCEPT ![t] = [Idle EXCEPT !.at = "upgrade", !.s = s]]
    BY <2>1 DEF LogonFind
  <2>3. th'[t] = State("upgrade", None, s, {}, NoGid)
    BY <2>1, <2>2 DEF State, Idle
  <2>4. State("upgrade", None, s, {}, NoGid) \in ThreadState
    BY <2>1 DEF State, ThreadState, At
  <2> QED BY <2>1, <2>2, <2>3, <2>4, MovesTo
<1>3. Counted'
    BY <1>1, <1>2, CountKeep DEF Moves, State, Shape, Shaped, Idle
<1>4. TypeOK'
    BY <1>1, <1>2, <1>3 DEF Moves, TypeOK, ThreadState, Shape, Shaped, Deleting
<1>5. Shape'
  <2>1. Shaped(State("upgrade", None, s, {}, NoGid))
    BY <1>1, <1>2 DEF State, Shaped
  <2> QED BY <1>2, <2>1, ShapeKept
<1>6. (MainWaits /\ LockedExists /\ NotHeld)'
    BY <1>1, <1>2 DEF Moves, State, MainWaits, Shape, Shaped, LockedExists, NotHeld
<1>7. Fresh'
    BY <1>1, <1>2 DEF Moves, State, Fresh, Unborn, Creating
<1>8. DeletedOnce'
    BY <1>1, <1>2 DEF Moves, State, DeletedOnce
<1>9. GroupIds'
  <2>1. /\ group[s] = None /\ gobj[s] = "none"
        /\ \A r \in Sids : group[r] # s /\ s \notin members[r] /\ r \notin members[s]
        /\ \A f \in Gids : groups[f] # s
    BY <1>1, NotYetInGroup
  <2>2. ASSUME NEW r \in Sids, group'[r] # None
        PROVE  /\ gobj'[group'[r]] # "none" /\ gid'[group'[r]] = gid'[r]
               /\ gid'[r] = NoGid => group'[r] = r
    BY <1>1, <2>1, <2>2 DEF GroupIds
  <2>3. \A f \in Gids : groups'[f] # None => gobj'[groups'[f]] = "live" /\ gid'[groups'[f]] = f
    BY <1>1, <2>1 DEF GroupIds
  <2>4. \A r, o \in Sids : r \in members'[o] => group'[r] = o
    BY <1>1, <2>1 DEF GroupIds
  <2> QED BY <2>2, <2>3, <2>4 DEF GroupIds
<1>10. GroupFresh'
    BY <1>1, <1>2 DEF Moves, State, TypeOK, GroupFresh, InGroup
<1>11. OrphanHasId'
    BY <1>1, <1>2 DEF Moves, State, OrphanHasId
<1>12. SessionKeepsGroup'
    BY <1>1, <1>2 DEF Moves, State, SessionKeepsGroup
<1>13. ListedGroupHasOwner'
    BY <1>1, <1>2 DEF Moves, ListedGroupHasOwner
<1> QED BY <1>3, <1>4, <1>5, <1>6, <1>7, <1>8, <1>9, <1>10, <1>11, <1>12, <1>13

\* The step LogonUpgrade: the group is created under the write lock.
LEMMA LogonUpgradeInv ==
    ASSUME IInv, NEW t \in Threads, LogonUpgrade(t)
    PROVE  IInv'
<1> USE IdsAssumption, ThreadsAssumption DEF IInv
<1>1. /\ group' = [group EXCEPT ![th[t].s] = th[t].s] /\ gobj' = [gobj EXCEPT ![th[t].s] = "live"]
      /\ members' = [members EXCEPT ![th[t].s] = @ \cup {th[t].s}]
      /\ groups' = [groups EXCEPT ![gid[th[t].s]] = IF @ = None THEN th[t].s ELSE @]
      /\ UNCHANGED <<sessions, obj, ref, expired, gid, stopped>>
    BY DEF LogonUpgrade, JoinNew, Join
<1>2. Moves(t, "upgrade", State("register", th[t].held, th[t].s, th[t].todo, th[t].id))
  <2>1. th \in [Threads -> ThreadState] /\ sessions \subseteq Sids /\ th[t].at = "upgrade"
    BY DEF TypeOK, LogonUpgrade
  <2>2. th' = [th EXCEPT ![t] = [th[t] EXCEPT !.at = "register"]]
    BY <2>1 DEF LogonUpgrade, Goto
  <2>3. th'[t] = State("register", th[t].held, th[t].s, th[t].todo, th[t].id)
    BY <2>1, <2>2 DEF State, ThreadState
  <2>4. State("register", th[t].held, th[t].s, th[t].todo, th[t].id) \in ThreadState
    BY <2>1 DEF State, ThreadState, At
  <2> QED BY <2>1, <2>2, <2>3, <2>4, MovesTo
<1>3. Counted'
    BY <1>1, <1>2, CountKeep DEF Moves, State
<1>4. TypeOK'
    BY <1>1, <1>2, <1>3 DEF Moves, TypeOK, ThreadState, Shape, Shaped, Deleting
<1>5. Shape'
  <2>1. Shaped(State("register", th[t].held, th[t].s, th[t].todo, th[t].id))
    BY <1>1, <1>2 DEF Moves, State, Shape, Shaped
  <2> QED BY <1>2, <2>1, ShapeKept
<1>6. (MainWaits /\ LockedExists /\ NotHeld)'
    BY <1>1, <1>2 DEF Moves, State, MainWaits, Shape, Shaped, Fresh, Creating, LockedExists,
       NotHeld
<1>7. Fresh'
    BY <1>1, <1>2 DEF Moves, State, Fresh, Unborn, Creating
<1>8. DeletedOnce'
    BY <1>1, <1>2 DEF Moves, State, DeletedOnce
<1>9. GroupIds'
  <2> PICK s \in Sids : s = th[t].s
    BY <1>2 DEF Moves, Shape, Shaped, TypeOK, ThreadState
  <2>0. /\ obj[s] = "none" /\ \A u \in Threads : th[u].s = s => u = t
        /\ th[t].at = "upgrade" /\ gid[s] \in Gids
    BY <1>2 DEF Moves, Fresh, Unborn, Creating, GroupFresh
  <2>1. /\ group[s] = None /\ gobj[s] = "none"
        /\ \A r \in Sids : group[r] # s /\ s \notin members[r] /\ r \notin members[s]
        /\ \A f \in Gids : groups[f] # s
    BY <2>0, NotYetInGroup
  <2>2. ASSUME NEW r \in Sids, group'[r] # None
        PROVE  /\ gobj'[group'[r]] # "none" /\ gid'[group'[r]] = gid'[r]
               /\ gid'[r] = NoGid => group'[r] = r
    BY <1>1, <2>0, <2>1, <2>2 DEF GroupIds, TypeOK
  <2>3. \A f \in Gids : groups'[f] # None => gobj'[groups'[f]] = "live" /\ gid'[groups'[f]] = f
    BY <1>1, <2>0, <2>1 DEF GroupIds, TypeOK
  <2>4. \A r, o \in Sids : r \in members'[o] => group'[r] = o
    BY <1>1, <2>0, <2>1 DEF GroupIds, TypeOK
  <2> QED BY <2>2, <2>3, <2>4 DEF GroupIds
<1>10. GroupFresh'
    BY <1>1, <1>2 DEF Moves, State, TypeOK, GroupFresh, InGroup
<1>11. OrphanHasId'
  <2> PICK s \in Sids : s = th[t].s
    BY <1>2 DEF Moves, Shape, Shaped, TypeOK, ThreadState
  <2>0. /\ obj[s] = "none" /\ \A u \in Threads : th[u].s = s => u = t
        /\ th[t].at = "upgrade" /\ gid[s] \in Gids
    BY <1>2 DEF Moves, Fresh, Unborn, Creating, GroupFresh
  <2>1. /\ group[s] = None /\ gobj[s] = "none"
        /\ \A r \in Sids : group[r] # s /\ s \notin members[r] /\ r \notin members[s]
        /\ \A f \in Gids : groups[f] # s
    BY <2>0, NotYetInGroup
  <2>2. \A u \in Threads : th[u].at = "orphanLock" => th[u].s \in Sids /\ group[th[u].s] \in Sids
    BY UsedInGroup DEF Deleting
  <2> QED BY <1>1, <1>2, <2>0, <2>1, <2>2 DEF Moves, State, OrphanHasId
<1>12. SessionKeepsGroup'
    BY <1>1, <1>2 DEF Moves, State, TypeOK, SessionKeepsGroup
<1>13. ListedGroupHasOwner'
  <2> PICK s \in Sids : s = th[t].s
    BY <1>2 DEF Moves, Shape, Shaped, TypeOK, ThreadState
  <2>0. /\ obj[s] = "none" /\ \A u \in Threads : th[u].s = s => u = t
        /\ th[t].at = "upgrade" /\ gid[s] \in Gids
    BY <1>2 DEF Moves, Fresh, Unborn, Creating, GroupFresh
  <2>1. /\ group[s] = None /\ gobj[s] = "none"
        /\ \A r \in Sids : group[r] # s /\ s \notin members[r] /\ r \notin members[s]
        /\ \A f \in Gids : groups[f] # s
    BY <2>0, NotYetInGroup
  <2>2. \A f \in Gids : groups'[f] # None =>
            \/ groups'[f] = s /\ s \in members'[s] /\ gobj'[s] = "live"
            \/ /\ groups'[f] = groups[f] /\ groups[f] \in Sids /\ groups[f] # s
               /\ members'[groups[f]] = members[groups[f]]
               /\ gobj'[groups[f]] = gobj[groups[f]]
    BY <1>1, <2>0, <2>1 DEF TypeOK
  <2>3. \A u \in Threads : th[u].at \in {"unsubscribe", "orphan", "orphanLock"}
            => th'[u] = th[u] /\ group'[th[u].s] = group[th[u].s]
    <3>1. \A u \in Threads : th[u].at \in {"unsubscribe", "orphan", "orphanLock"}
              => th[u].s \in Sids /\ u # t
      BY <2>0, UsedInGroup DEF Deleting
    <3> QED BY <1>1, <1>2, <2>0, <3>1 DEF Moves
  <2> QED BY <2>2, <2>3 DEF ListedGroupHasOwner
<1> QED BY <1>3, <1>4, <1>5, <1>6, <1>7, <1>8, <1>9, <1>10, <1>11, <1>12, <1>13

\* The step Register: the new session comes on the map, locked.
LEMMA RegisterInv ==
    ASSUME IInv, NEW t \in Threads, Register(t)
    PROVE  IInv'
<1> USE IdsAssumption, ThreadsAssumption DEF IInv
<1>1. /\ sessions' = sessions \cup {th[t].s} /\ obj' = [obj EXCEPT ![th[t].s] = "live"]
      /\ UNCHANGED <<expired, gid, group, groups, gobj, members, stopped>>
    BY DEF Register, groupVars
<1>2. Moves(t, "register", State("work", th[t].s, None, th[t].todo, th[t].id))
  <2>1. th \in [Threads -> ThreadState] /\ sessions \subseteq Sids /\ th[t].at = "register"
    BY DEF TypeOK, Register
  <2>2. th' = [th EXCEPT ![t] = [th[t] EXCEPT !.at = "work", !.held = th[t].s, !.s = None]]
    BY <2>1 DEF Register
  <2>3. th'[t] = State("work", th[t].s, None, th[t].todo, th[t].id)
    BY <2>1, <2>2 DEF State, ThreadState
  <2>4. State("work", th[t].s, None, th[t].todo, th[t].id) \in ThreadState
    BY <2>1 DEF State, ThreadState, At
  <2> QED BY <2>1, <2>2, <2>3, <2>4, MovesTo
<1>3. Counted' /\ ref' \in [Sids -> Nat]
  <2>1. th[t].s \in Sids /\ th[t].held = None /\ ref' = [ref EXCEPT ![th[t].s] = @ + 1]
    BY DEF Register, Shape, Shaped, TypeOK, ThreadState
  <2>2. th'[t].held = th[t].s /\ \A u \in Threads \ {t} : th'[u].held = th[u].held
    BY <1>2 DEF Moves, State, TypeOK
  <2> QED BY <2>1, <2>2, CountUp
<1>4. TypeOK'
    BY <1>1, <1>2, <1>3 DEF Moves, TypeOK, ThreadState, Shape, Shaped
<1>5. Shape'
  <2>1. Shaped(State("work", th[t].s, None, th[t].todo, th[t].id))
    BY <1>1, <1>2 DEF Moves, State, Shape, Shaped, Deleting
  <2> QED BY <1>2, <2>1, ShapeKept
<1>6. (MainWaits /\ LockedExists /\ NotHeld)'
    BY <1>1, <1>2 DEF Moves, State, TypeOK, MainWaits, ThreadState, Shape, Shaped, Fresh, Unborn,
       Creating, Deleting, LockedExists, NotHeld
<1>7. Fresh'
    BY <1>1, <1>2 DEF Moves, State, TypeOK, Fresh, Unborn, Creating
<1>8. DeletedOnce'
    BY <1>1, <1>2 DEF Moves, State, TypeOK, Fresh, Unborn, Creating, DeletedOnce
<1>9. (GroupFresh /\ GroupIds)'
    BY <1>1, <1>2 DEF Moves, State, TypeOK, GroupFresh, InGroup, GroupIds
<1>10. OrphanHasId'
    BY <1>1, <1>2 DEF Moves, State, OrphanHasId
<1>11. SessionKeepsGroup'
    BY <1>1, <1>2 DEF Moves, State, SessionKeepsGroup
<1>12. ListedGroupHasOwner'
    BY <1>1, <1>2 DEF Moves, ListedGroupHasOwner
<1> QED BY <1>3, <1>4, <1>5, <1>6, <1>7, <1>8, <1>9, <1>10, <1>11, <1>12

\* The step RegisterFails: the new session is deleted at once.
LEMMA RegisterFailsInv ==
    ASSUME IInv, NEW t \in Threads, RegisterFails(t)
    PROVE  IInv'
<1> USE IdsAssumption, ThreadsAssumption DEF IInv
<1>1. /\ obj' = [obj EXCEPT ![th[t].s] = "live"]
      /\ UNCHANGED <<sessions, ref, expired, gid, group, groups, gobj, members, stopped>>
    BY DEF RegisterFails, groupVars
<1>2. Moves(t, "register", State("release", th[t].held, th[t].s, th[t].todo, th[t].id))
  <2>1. th \in [Threads -> ThreadState] /\ sessions \subseteq Sids /\ th[t].at = "register"
    BY DEF TypeOK, RegisterFails
  <2>2. th' = [th EXCEPT ![t] = [th[t] EXCEPT !.at = "release"]]
    BY <2>1 DEF RegisterFails, Goto
  <2>3. th'[t] = State("release", th[t].held, th[t].s, th[t].todo, th[t].id)
    BY <2>1, <2>2 DEF State, ThreadState
  <2>4. State("release", th[t].held, th[t].s, th[t].todo, th[t].id) \in ThreadState
    BY <2>1 DEF State, ThreadState, At
  <2> QED BY <2>1, <2>2, <2>3, <2>4, MovesTo
<1>3. Counted'
    BY <1>1, <1>2, CountKeep DEF Moves, State
<1>4. TypeOK'
    BY <1>1, <1>2, <1>3 DEF Moves, TypeOK
<1>5. Shape'
  <2>1. Shaped(State("release", th[t].held, th[t].s, th[t].todo, th[t].id))
    BY <1>1, <1>2 DEF Moves, State, Shape, Shaped
  <2> QED BY <1>2, <2>1, ShapeKept
<1>6. (MainWaits /\ LockedExists /\ NotHeld)'
    BY <1>1, <1>2 DEF Moves, State, MainWaits, Shape, Shaped, Fresh, Creating, LockedExists,
       NotHeld
<1>7. Fresh'
    BY <1>1, <1>2 DEF Moves, State, TypeOK, Fresh, Unborn, Creating
<1>8. DeletedOnce'
    BY <1>1, <1>2 DEF Moves, State, Fresh, Unborn, Creating, DeletedOnce
<1>9. (GroupFresh /\ GroupIds)'
    BY <1>1, <1>2 DEF Moves, State, TypeOK, GroupFresh, InGroup, GroupIds
<1>10. OrphanHasId'
    BY <1>1, <1>2 DEF Moves, State, OrphanHasId
<1>11. SessionKeepsGroup'
    BY <1>1, <1>2 DEF Moves, State, SessionKeepsGroup
<1>12. ListedGroupHasOwner'
    BY <1>1, <1>2 DEF Moves, ListedGroupHasOwner
<1> QED BY <1>3, <1>4, <1>5, <1>6, <1>7, <1>8, <1>9, <1>10, <1>11, <1>12

\* The step ValidateSession: a call finds its session and locks it.
LEMMA ValidateSessionInv ==
    ASSUME IInv, NEW t \in Threads, NEW s \in Sids, ValidateSession(t, s)
    PROVE  IInv'
<1> USE IdsAssumption, ThreadsAssumption DEF IInv
<1>1. /\ t \in Workers /\ s \in sessions /\ ~stopped /\ expired' = expired \ {s}
      /\ UNCHANGED <<sessions, obj, gid, group, groups, gobj, members, stopped>>
    BY DEF ValidateSession, groupVars
<1>2. Moves(t, "idle", State("work", s, None, {}, NoGid))
  <2>1. /\ th \in [Threads -> ThreadState] /\ th[t] = Idle /\ th[t].at = "idle"
       /\ sessions \subseteq Sids
    BY DEF TypeOK, Idle, ValidateSession
  <2>2. th' = [th EXCEPT ![t] = [Idle EXCEPT !.at = "work", !.held = s]]
    BY <2>1 DEF ValidateSession
  <2>3. th'[t] = State("work", s, None, {}, NoGid)
    BY <2>1, <2>2 DEF State, Idle
  <2>4. State("work", s, None, {}, NoGid) \in ThreadState
    BY <2>1 DEF State, ThreadState, At
  <2> QED BY <2>1, <2>2, <2>3, <2>4, MovesTo
<1>3. Counted' /\ ref' \in [Sids -> Nat]
  <2>1. s \in Sids /\ th[t].held = None /\ ref' = [ref EXCEPT ![s] = @ + 1]
    BY DEF ValidateSession, Idle
  <2>2. th'[t].held = s /\ \A u \in Threads \ {t} : th'[u].held = th[u].held
    BY <1>2 DEF Moves, State, TypeOK
  <2> QED BY <2>1, <2>2, CountUp
<1>4. TypeOK'
    BY <1>1, <1>2, <1>3 DEF Moves, TypeOK
<1>5. Shape'
  <2>1. Shaped(State("work", s, None, {}, NoGid))
    BY <1>1, <1>2 DEF State, Shaped, Deleting
  <2> QED BY <1>2, <2>1, ShapeKept
<1>6. (MainWaits /\ LockedExists /\ NotHeld)'
    BY <1>1, <1>2 DEF Moves, State, MainWaits, Deleting, DeletedOnce, LockedExists, NotHeld
<1>7. Fresh'
    BY <1>1, <1>2 DEF Moves, State, Fresh, Unborn, Creating
<1>8. DeletedOnce'
    BY <1>1, <1>2 DEF Moves, State, DeletedOnce
<1>9. (GroupFresh /\ GroupIds)'
    BY <1>1, <1>2 DEF Moves, State, GroupFresh, InGroup, GroupIds
<1>10. OrphanHasId'
    BY <1>1, <1>2 DEF Moves, State, OrphanHasId
<1>11. SessionKeepsGroup'
    BY <1>1, <1>2 DEF Moves, State, SessionKeepsGroup
<1>12. ListedGroupHasOwner'
    BY <1>1, <1>2 DEF Moves, ListedGroupHasOwner
<1> QED BY <1>3, <1>4, <1>5, <1>6, <1>7, <1>8, <1>9, <1>10, <1>11, <1>12

\* The step Finish: the call is over and unlocks its session.
LEMMA FinishInv ==
    ASSUME IInv, NEW t \in Threads, Finish(t)
    PROVE  IInv'
<1> USE IdsAssumption, ThreadsAssumption DEF IInv
<1>1. /\ UNCHANGED <<sessions, obj, expired, gid, group, groups, gobj, members, stopped>>
    BY DEF Finish, groupVars
<1>2. Moves(t, "work", State("busy", None, th[t].held, {}, NoGid))
  <2>1. th \in [Threads -> ThreadState] /\ sessions \subseteq Sids /\ th[t].at = "work"
    BY DEF TypeOK, Finish
  <2>2. th' = [th EXCEPT ![t] = [Idle EXCEPT !.at = "busy", !.s = th[t].held]]
    BY <2>1 DEF Finish
  <2>3. th'[t] = State("busy", None, th[t].held, {}, NoGid)
    BY <2>1, <2>2 DEF State, Idle
  <2>4. State("busy", None, th[t].held, {}, NoGid) \in ThreadState
    BY <2>1 DEF State, ThreadState, At
  <2> QED BY <2>1, <2>2, <2>3, <2>4, MovesTo
<1>3. Counted' /\ ref' \in [Sids -> Nat]
  <2>1. th[t].held \in Sids /\ ref' = [ref EXCEPT ![th[t].held] = @ - 1]
    BY DEF Finish, Unlock, Shape, Shaped, TypeOK, ThreadState
  <2>2. th'[t].held = None /\ \A u \in Threads \ {t} : th'[u].held = th[u].held
    BY <1>2 DEF Moves, State, TypeOK
  <2> QED BY <2>1, <2>2, CountDown
<1>4. TypeOK'
    BY <1>1, <1>2, <1>3 DEF Moves, TypeOK
<1>5. Shape'
  <2>1. Shaped(State("busy", None, th[t].held, {}, NoGid))
    BY <1>1, <1>2 DEF Moves, State, Shape, Shaped
  <2> QED BY <1>2, <2>1, ShapeKept
<1>6. (MainWaits /\ LockedExists /\ NotHeld)'
    BY <1>1, <1>2 DEF Moves, State, MainWaits, Shape, Shaped, Deleting, LockedExists, NotHeld
<1>7. Fresh'
    BY <1>1, <1>2 DEF Moves, State, Fresh, Unborn, Creating
<1>8. DeletedOnce'
    BY <1>1, <1>2 DEF Moves, State, DeletedOnce
<1>9. (GroupFresh /\ GroupIds)'
    BY <1>1, <1>2 DEF Moves, State, GroupFresh, InGroup, GroupIds
<1>10. OrphanHasId'
    BY <1>1, <1>2 DEF Moves, State, OrphanHasId
<1>11. SessionKeepsGroup'
    BY <1>1, <1>2 DEF Moves, State, SessionKeepsGroup
<1>12. ListedGroupHasOwner'
    BY <1>1, <1>2 DEF Moves, ListedGroupHasOwner
<1> QED BY <1>3, <1>4, <1>5, <1>6, <1>7, <1>8, <1>9, <1>10, <1>11, <1>12

\* The step RemoveBusyState when the session is still on the map.
LEMMA BusyStateFoundInv ==
    ASSUME IInv, NEW t \in Threads, RemoveBusyState(t), th[t].s \in sessions
    PROVE  IInv'
<1> USE IdsAssumption, ThreadsAssumption DEF IInv
<1>1. /\ expired' = expired \ {th[t].s}
      /\ UNCHANGED <<sessions, obj, gid, group, groups, gobj, members, stopped>>
    BY DEF RemoveBusyState, groupVars
<1>2. Moves(t, "busy", State("unbusy", th[t].s, None, th[t].todo, th[t].id))
  <2>1. th \in [Threads -> ThreadState] /\ sessions \subseteq Sids /\ th[t].at = "busy"
    BY DEF TypeOK, RemoveBusyState
  <2>2. th' = [th EXCEPT ![t] = [th[t] EXCEPT !.at = "unbusy", !.held = th[t].s, !.s = None]]
    BY <2>1 DEF RemoveBusyState
  <2>3. th'[t] = State("unbusy", th[t].s, None, th[t].todo, th[t].id)
    BY <2>1, <2>2 DEF State, ThreadState
  <2>4. State("unbusy", th[t].s, None, th[t].todo, th[t].id) \in ThreadState
    BY <2>1 DEF State, ThreadState, At
  <2> QED BY <2>1, <2>2, <2>3, <2>4, MovesTo
<1>3. Counted' /\ ref' \in [Sids -> Nat]
  <2>1. th[t].s \in Sids /\ th[t].held = None /\ ref' = [ref EXCEPT ![th[t].s] = @ + 1]
    BY DEF RemoveBusyState, Shape, Shaped, TypeOK
  <2>2. th'[t].held = th[t].s /\ \A u \in Threads \ {t} : th'[u].held = th[u].held
    BY <1>2 DEF Moves, State, TypeOK
  <2> QED BY <2>1, <2>2, CountUp
<1>4. TypeOK'
    BY <1>1, <1>2, <1>3 DEF Moves, TypeOK
<1>5. Shape'
  <2>1. Shaped(State("unbusy", th[t].s, None, th[t].todo, th[t].id))
    BY <1>1, <1>2 DEF Moves, State, Shape, Shaped, Deleting
  <2> QED BY <1>2, <2>1, ShapeKept
<1>6. (MainWaits /\ LockedExists /\ NotHeld)'
    BY <1>1, <1>2 DEF Moves, State, TypeOK, MainWaits, Deleting, DeletedOnce, LockedExists,
       NotHeld
<1>7. Fresh'
    BY <1>1, <1>2 DEF Moves, State, Fresh, Unborn, Creating
<1>8. DeletedOnce'
    BY <1>1, <1>2 DEF Moves, State, DeletedOnce
<1>9. (GroupFresh /\ GroupIds)'
    BY <1>1, <1>2 DEF Moves, State, GroupFresh, InGroup, GroupIds
<1>10. OrphanHasId'
    BY <1>1, <1>2 DEF Moves, State, OrphanHasId
<1>11. SessionKeepsGroup'
    BY <1>1, <1>2 DEF Moves, State, SessionKeepsGroup
<1>12. ListedGroupHasOwner'
    BY <1>1, <1>2 DEF Moves, ListedGroupHasOwner
<1> QED BY <1>3, <1>4, <1>5, <1>6, <1>7, <1>8, <1>9, <1>10, <1>11, <1>12

\* The step RemoveBusyState when the session is off the map.
LEMMA BusyStateGoneInv ==
    ASSUME IInv, NEW t \in Threads, RemoveBusyState(t), th[t].s \notin sessions
    PROVE  IInv'
<1> USE IdsAssumption, ThreadsAssumption DEF IInv
<1>1. /\ UNCHANGED <<sessions, obj, ref, expired, gid, group, groups, gobj, members, stopped>>
    BY DEF RemoveBusyState, groupVars
<1>2. Moves(t, "busy", State("idle", None, None, {}, NoGid))
  <2>1. th \in [Threads -> ThreadState] /\ sessions \subseteq Sids /\ th[t].at = "busy"
    BY DEF TypeOK, RemoveBusyState
  <2>2. th' = [th EXCEPT ![t] = Idle]
    BY <2>1 DEF RemoveBusyState
  <2>3. th'[t] = State("idle", None, None, {}, NoGid)
    BY <2>1, <2>2 DEF State, Idle
  <2>4. State("idle", None, None, {}, NoGid) \in ThreadState
    BY <2>1 DEF State, ThreadState, At
  <2> QED BY <2>1, <2>2, <2>3, <2>4, MovesTo
<1>3. Counted'
    BY <1>1, <1>2, CountKeep DEF Moves, State, Shape, Shaped
<1>4. TypeOK'
    BY <1>1, <1>2, <1>3 DEF Moves, TypeOK
<1>5. Shape'
  <2>1. Shaped(State("idle", None, None, {}, NoGid))
    BY <1>1, <1>2 DEF State, Shaped, Idle, Deleting
  <2> QED BY <1>2, <2>1, ShapeKept
<1>6. (MainWaits /\ LockedExists /\ NotHeld)'
    BY <1>1, <1>2 DEF Moves, State, MainWaits, Shape, Shaped, Deleting, LockedExists, NotHeld
<1>7. Fresh'
    BY <1>1, <1>2 DEF Moves, State, Fresh, Unborn, Creating
<1>8. DeletedOnce'
    BY <1>1, <1>2 DEF Moves, State, DeletedOnce
<1>9. (GroupFresh /\ GroupIds)'
    BY <1>1, <1>2 DEF Moves, State, GroupFresh, InGroup, GroupIds
<1>10. OrphanHasId'
    BY <1>1, <1>2 DEF Moves, State, OrphanHasId
<1>11. SessionKeepsGroup'
    BY <1>1, <1>2 DEF Moves, State, SessionKeepsGroup
<1>12. ListedGroupHasOwner'
    BY <1>1, <1>2 DEF Moves, ListedGroupHasOwner
<1> QED BY <1>3, <1>4, <1>5, <1>6, <1>7, <1>8, <1>9, <1>10, <1>11, <1>12

\* The step BusyStateRemoved: the session is unlocked again.
LEMMA BusyStateRemovedInv ==
    ASSUME IInv, NEW t \in Threads, BusyStateRemoved(t)
    PROVE  IInv'
<1> USE IdsAssumption, ThreadsAssumption DEF IInv
<1>1. /\ UNCHANGED <<sessions, obj, expired, gid, group, groups, gobj, members, stopped>>
    BY DEF BusyStateRemoved, groupVars
<1>2. Moves(t, "unbusy", State("idle", None, None, {}, NoGid))
  <2>1. th \in [Threads -> ThreadState] /\ sessions \subseteq Sids /\ th[t].at = "unbusy"
    BY DEF TypeOK, BusyStateRemoved
  <2>2. th' = [th EXCEPT ![t] = Idle]
    BY <2>1 DEF BusyStateRemoved
  <2>3. th'[t] = State("idle", None, None, {}, NoGid)
    BY <2>1, <2>2 DEF State, Idle
  <2>4. State("idle", None, None, {}, NoGid) \in ThreadState
    BY <2>1 DEF State, ThreadState, At
  <2> QED BY <2>1, <2>2, <2>3, <2>4, MovesTo
<1>3. Counted' /\ ref' \in [Sids -> Nat]
  <2>1. th[t].held \in Sids /\ ref' = [ref EXCEPT ![th[t].held] = @ - 1]
    BY DEF BusyStateRemoved, Unlock, Shape, Shaped, TypeOK, ThreadState
  <2>2. th'[t].held = None /\ \A u \in Threads \ {t} : th'[u].held = th[u].held
    BY <1>2 DEF Moves, State, TypeOK
  <2> QED BY <2>1, <2>2, CountDown
<1>4. TypeOK'
    BY <1>1, <1>2, <1>3 DEF Moves, TypeOK
<1>5. Shape'
  <2>1. Shaped(State("idle", None, None, {}, NoGid))
    BY <1>1, <1>2 DEF State, Shaped, Idle, Deleting
  <2> QED BY <1>2, <2>1, ShapeKept
<1>6. (MainWaits /\ LockedExists /\ NotHeld)'
    BY <1>1, <1>2 DEF Moves, State, MainWaits, Shape, Shaped, Deleting, LockedExists, NotHeld
<1>7. Fresh'
    BY <1>1, <1>2 DEF Moves, State, Fresh, Unborn, Creating
<1>8. DeletedOnce'
    BY <1>1, <1>2 DEF Moves, State, DeletedOnce
<1>9. (GroupFresh /\ GroupIds)'
    BY <1>1, <1>2 DEF Moves, State, GroupFresh, InGroup, GroupIds
<1>10. OrphanHasId'
    BY <1>1, <1>2 DEF Moves, State, OrphanHasId
<1>11. SessionKeepsGroup'
    BY <1>1, <1>2 DEF Moves, State, SessionKeepsGroup
<1>12. ListedGroupHasOwner'
    BY <1>1, <1>2 DEF Moves, ListedGroupHasOwner
<1> QED BY <1>3, <1>4, <1>5, <1>6, <1>7, <1>8, <1>9, <1>10, <1>11, <1>12

\* The step Logoff: the session is unlocked before it is removed.
LEMMA LogoffInv ==
    ASSUME IInv, NEW t \in Threads, Logoff(t)
    PROVE  IInv'
<1> USE IdsAssumption, ThreadsAssumption DEF IInv
<1>1. /\ UNCHANGED <<sessions, obj, expired, gid, group, groups, gobj, members, stopped>>
    BY DEF Logoff, groupVars
<1>2. Moves(t, "work", State("remove", None, th[t].held, {}, NoGid))
  <2>1. th \in [Threads -> ThreadState] /\ sessions \subseteq Sids /\ th[t].at = "work"
    BY DEF TypeOK, Logoff
  <2>2. th' = [th EXCEPT ![t] = [Idle EXCEPT !.at = "remove", !.s = th[t].held]]
    BY <2>1 DEF Logoff
  <2>3. th'[t] = State("remove", None, th[t].held, {}, NoGid)
    BY <2>1, <2>2 DEF State, Idle
  <2>4. State("remove", None, th[t].held, {}, NoGid) \in ThreadState
    BY <2>1 DEF State, ThreadState, At
  <2> QED BY <2>1, <2>2, <2>3, <2>4, MovesTo
<1>3. Counted' /\ ref' \in [Sids -> Nat]
  <2>1. th[t].held \in Sids /\ ref' = [ref EXCEPT ![th[t].held] = @ - 1]
    BY DEF Logoff, Unlock, Shape, Shaped, TypeOK, ThreadState
  <2>2. th'[t].held = None /\ \A u \in Threads \ {t} : th'[u].held = th[u].held
    BY <1>2 DEF Moves, State, TypeOK
  <2> QED BY <2>1, <2>2, CountDown
<1>4. TypeOK'
    BY <1>1, <1>2, <1>3 DEF Moves, TypeOK
<1>5. Shape'
  <2>1. Shaped(State("remove", None, th[t].held, {}, NoGid))
    BY <1>1, <1>2 DEF Moves, State, Shape, Shaped
  <2> QED BY <1>2, <2>1, ShapeKept
<1>6. (MainWaits /\ LockedExists /\ NotHeld)'
    BY <1>1, <1>2 DEF Moves, State, MainWaits, Shape, Shaped, Deleting, LockedExists, NotHeld
<1>7. Fresh'
    BY <1>1, <1>2 DEF Moves, State, Fresh, Unborn, Creating
<1>8. DeletedOnce'
    BY <1>1, <1>2 DEF Moves, State, DeletedOnce
<1>9. (GroupFresh /\ GroupIds)'
    BY <1>1, <1>2 DEF Moves, State, GroupFresh, InGroup, GroupIds
<1>10. OrphanHasId'
    BY <1>1, <1>2 DEF Moves, State, OrphanHasId
<1>11. SessionKeepsGroup'
    BY <1>1, <1>2 DEF Moves, State, SessionKeepsGroup
<1>12. ListedGroupHasOwner'
    BY <1>1, <1>2 DEF Moves, ListedGroupHasOwner
<1> QED BY <1>3, <1>4, <1>5, <1>6, <1>7, <1>8, <1>9, <1>10, <1>11, <1>12

\* The step RemoveSession: the session is taken off the map.
LEMMA RemoveSessionInv ==
    ASSUME IInv, NEW t \in Threads, RemoveSession(t), th[t].s \in sessions
    PROVE  IInv'
<1> USE IdsAssumption, ThreadsAssumption DEF IInv
<1>1. /\ sessions' = sessions \ {th[t].s}
      /\ UNCHANGED <<obj, ref, expired, gid, group, groups, gobj, members, stopped>>
    BY DEF RemoveSession, groupVars
<1>2. Moves(t, "remove", State("shutdown", None, None, {th[t].s}, NoGid))
  <2>1. th \in [Threads -> ThreadState] /\ sessions \subseteq Sids /\ th[t].at = "remove"
    BY DEF TypeOK, RemoveSession
  <2>2. th' = [th EXCEPT ![t] = [Idle EXCEPT !.at = "shutdown", !.todo = {th[t].s}]]
    BY <2>1 DEF RemoveSession
  <2>3. th'[t] = State("shutdown", None, None, {th[t].s}, NoGid)
    BY <2>1, <2>2 DEF State, Idle
  <2>4. State("shutdown", None, None, {th[t].s}, NoGid) \in ThreadState
    BY <2>1 DEF State, ThreadState, At
  <2> QED BY <2>1, <2>2, <2>3, <2>4, MovesTo
<1>3. Counted'
    BY <1>1, <1>2, CountKeep DEF Moves, State, Shape, Shaped
<1>4. TypeOK'
    BY <1>1, <1>2, <1>3 DEF Moves, TypeOK
<1>5. Shape'
  <2>1. Shaped(State("shutdown", None, None, {th[t].s}, NoGid))
    BY <1>1, <1>2 DEF State, Shaped, Deleting
  <2> QED BY <1>2, <2>1, ShapeKept
<1>6. (MainWaits /\ LockedExists /\ NotHeld)'
    BY <1>1, <1>2 DEF Moves, State, MainWaits, Shape, Shaped, Deleting, LockedExists, NotHeld
<1>7. Fresh'
    BY <1>1, <1>2 DEF Moves, State, Fresh, Unborn, Creating
<1>8. DeletedOnce'
    BY <1>1, <1>2 DEF Moves, State, DeletedOnce
<1>9. (GroupFresh /\ GroupIds)'
    BY <1>1, <1>2 DEF Moves, State, GroupFresh, InGroup, GroupIds
<1>10. OrphanHasId'
    BY <1>1, <1>2 DEF Moves, State, OrphanHasId
<1>11. SessionKeepsGroup'
    BY <1>1, <1>2 DEF Moves, State, SessionKeepsGroup
<1>12. ListedGroupHasOwner'
    BY <1>1, <1>2 DEF Moves, ListedGroupHasOwner
<1> QED BY <1>3, <1>4, <1>5, <1>6, <1>7, <1>8, <1>9, <1>10, <1>11, <1>12

\* The step RemoveSession when another thread has taken the session off the map.
LEMMA RemovedByOtherInv ==
    ASSUME IInv, NEW t \in Threads, RemoveSession(t), th[t].s \notin sessions
    PROVE  IInv'
<1> USE IdsAssumption, ThreadsAssumption DEF IInv
<1>1. /\ UNCHANGED <<sessions, obj, ref, expired, gid, group, groups, gobj, members, stopped>>
    BY DEF RemoveSession, groupVars
<1>2. Moves(t, "remove", State("idle", None, None, {}, NoGid))
  <2>1. th \in [Threads -> ThreadState] /\ sessions \subseteq Sids /\ th[t].at = "remove"
    BY DEF TypeOK, RemoveSession
  <2>2. th' = [th EXCEPT ![t] = Idle]
    BY <2>1 DEF RemoveSession
  <2>3. th'[t] = State("idle", None, None, {}, NoGid)
    BY <2>1, <2>2 DEF State, Idle
  <2>4. State("idle", None, None, {}, NoGid) \in ThreadState
    BY <2>1 DEF State, ThreadState, At
  <2> QED BY <2>1, <2>2, <2>3, <2>4, MovesTo
<1>3. Counted'
    BY <1>1, <1>2, CountKeep DEF Moves, State, Shape, Shaped
<1>4. TypeOK'
    BY <1>1, <1>2, <1>3 DEF Moves, TypeOK
<1>5. Shape'
  <2>1. Shaped(State("idle", None, None, {}, NoGid))
    BY <1>1, <1>2 DEF State, Shaped, Idle, Deleting
  <2> QED BY <1>2, <2>1, ShapeKept
<1>6. (MainWaits /\ LockedExists /\ NotHeld)'
    BY <1>1, <1>2 DEF Moves, State, MainWaits, Shape, Shaped, Deleting, LockedExists, NotHeld
<1>7. Fresh'
    BY <1>1, <1>2 DEF Moves, State, Fresh, Unborn, Creating
<1>8. DeletedOnce'
    BY <1>1, <1>2 DEF Moves, State, DeletedOnce
<1>9. (GroupFresh /\ GroupIds)'
    BY <1>1, <1>2 DEF Moves, State, GroupFresh, InGroup, GroupIds
<1>10. OrphanHasId'
    BY <1>1, <1>2 DEF Moves, State, OrphanHasId
<1>11. SessionKeepsGroup'
    BY <1>1, <1>2 DEF Moves, State, SessionKeepsGroup
<1>12. ListedGroupHasOwner'
    BY <1>1, <1>2 DEF Moves, ListedGroupHasOwner
<1> QED BY <1>3, <1>4, <1>5, <1>6, <1>7, <1>8, <1>9, <1>10, <1>11, <1>12

\* The step Clean: the cleaner takes the expired sessions off the map.
LEMMA CleanInv ==
    ASSUME IInv, NEW t \in Threads, t = Cleaner, Clean
    PROVE  IInv'
<1> USE IdsAssumption, ThreadsAssumption DEF IInv
<1>1. /\ sessions' = sessions \ expired
      /\ UNCHANGED <<obj, ref, expired, gid, group, groups, gobj, members, stopped>>
    BY DEF Clean, groupVars
<1>2. Moves(t, "idle", State("shutdown", None, None, sessions \cap expired, NoGid))
  <2>1. /\ th \in [Threads -> ThreadState] /\ th[t] = Idle /\ th[t].at = "idle"
       /\ sessions \subseteq Sids
    BY DEF TypeOK, Idle, Clean
  <2>2. th' = [th EXCEPT ![t] = [Idle EXCEPT !.at = "shutdown", !.todo = sessions \cap expired]]
    BY <2>1 DEF Clean
  <2>3. th'[t] = State("shutdown", None, None, sessions \cap expired, NoGid)
    BY <2>1, <2>2 DEF State, Idle
  <2>4. State("shutdown", None, None, sessions \cap expired, NoGid) \in ThreadState
    BY <2>1 DEF State, ThreadState, At
  <2> QED BY <2>1, <2>2, <2>3, <2>4, MovesTo
<1>3. Counted'
    BY <1>1, <1>2, CountKeep DEF Moves, State, Shape, Shaped, Idle
<1>4. TypeOK'
    BY <1>1, <1>2, <1>3 DEF Moves, TypeOK
<1>5. Shape'
  <2>1. Shaped(State("shutdown", None, None, sessions \cap expired, NoGid))
    BY <1>1, <1>2 DEF State, Shaped, Deleting
  <2> QED BY <1>2, <2>1, ShapeKept
<1>6. (MainWaits /\ LockedExists /\ NotHeld)'
    BY <1>1, <1>2 DEF Moves, State, MainWaits, Shape, Shaped, Deleting, LockedExists, NotHeld
<1>7. Fresh'
    BY <1>1, <1>2 DEF Moves, State, Fresh, Unborn, Creating
<1>8. DeletedOnce'
    BY <1>1, <1>2 DEF Moves, State, DeletedOnce
<1>9. (GroupFresh /\ GroupIds)'
    BY <1>1, <1>2 DEF Moves, State, GroupFresh, InGroup, GroupIds
<1>10. OrphanHasId'
    BY <1>1, <1>2 DEF Moves, State, OrphanHasId
<1>11. SessionKeepsGroup'
    BY <1>1, <1>2 DEF Moves, State, SessionKeepsGroup
<1>12. ListedGroupHasOwner'
    BY <1>1, <1>2 DEF Moves, ListedGroupHasOwner
<1> QED BY <1>3, <1>4, <1>5, <1>6, <1>7, <1>8, <1>9, <1>10, <1>11, <1>12

\* The step CancelAllSessions: all sessions but the caller's come off the map.
LEMMA CancelAllSessionsInv ==
    ASSUME IInv, NEW t \in Threads, CancelAllSessions(t)
    PROVE  IInv'
<1> USE IdsAssumption, ThreadsAssumption DEF IInv
<1>1. /\ sessions' = sessions \cap {th[t].held}
      /\ UNCHANGED <<obj, ref, expired, gid, group, groups, gobj, members, stopped>>
    BY DEF CancelAllSessions, groupVars
<1>2. Moves(t, "work", State("shutdown", th[t].held, th[t].s, sessions \ {th[t].held}, th[t].id))
  <2>1. th \in [Threads -> ThreadState] /\ sessions \subseteq Sids /\ th[t].at = "work"
    BY DEF TypeOK, CancelAllSessions
  <2>2. th' = [th EXCEPT ![t] = [th[t] EXCEPT !.at = "shutdown", !.todo = sessions \ {th[t].held}]]
    BY <2>1 DEF CancelAllSessions
  <2>3. th'[t] = State("shutdown", th[t].held, th[t].s, sessions \ {th[t].held}, th[t].id)
    BY <2>1, <2>2 DEF State, ThreadState
  <2>4. State("shutdown", th[t].held, th[t].s, sessions \ {th[t].held}, th[t].id) \in ThreadState
    BY <2>1 DEF State, ThreadState, At
  <2> QED BY <2>1, <2>2, <2>3, <2>4, MovesTo
<1>3. Counted'
    BY <1>1, <1>2, CountKeep DEF Moves, State
<1>4. TypeOK'
    BY <1>1, <1>2, <1>3 DEF Moves, TypeOK
<1>5. Shape'
  <2>1. Shaped(State("shutdown", th[t].held, th[t].s, sessions \ {th[t].held}, th[t].id))
    BY <1>1, <1>2 DEF Moves, State, Shape, Shaped, Deleting
  <2> QED BY <1>2, <2>1, ShapeKept
<1>6. (MainWaits /\ LockedExists /\ NotHeld)'
    BY <1>1, <1>2 DEF Moves, State, MainWaits, Deleting, LockedExists, NotHeld
<1>7. Fresh'
    BY <1>1, <1>2 DEF Moves, State, Fresh, Unborn, Creating
<1>8. DeletedOnce'
    BY <1>1, <1>2 DEF Moves, State, DeletedOnce
<1>9. (GroupFresh /\ GroupIds)'
    BY <1>1, <1>2 DEF Moves, State, GroupFresh, InGroup, GroupIds
<1>10. OrphanHasId'
    BY <1>1, <1>2 DEF Moves, State, OrphanHasId
<1>11. SessionKeepsGroup'
    BY <1>1, <1>2 DEF Moves, State, SessionKeepsGroup
<1>12. ListedGroupHasOwner'
    BY <1>1, <1>2 DEF Moves, ListedGroupHasOwner
<1> QED BY <1>3, <1>4, <1>5, <1>6, <1>7, <1>8, <1>9, <1>10, <1>11, <1>12

\* The step RemoveAllSessions: the shutdown takes all sessions off the map.
LEMMA RemoveAllSessionsInv ==
    ASSUME IInv, NEW t \in Threads, t = MainThread, RemoveAllSessions
    PROVE  IInv'
<1> USE IdsAssumption, ThreadsAssumption DEF IInv
<1>1. /\ sessions' = {} /\ stopped' = TRUE
      /\ UNCHANGED <<obj, ref, expired, gid, group, groups, gobj, members>>
    BY DEF RemoveAllSessions, groupVars
<1>2. Moves(t, "idle", State("shutdown", None, None, sessions, NoGid))
  <2>1. /\ th \in [Threads -> ThreadState] /\ th[t] = Idle /\ th[t].at = "idle"
       /\ sessions \subseteq Sids
    BY DEF TypeOK, MainWaits, Shape, Shaped, RemoveAllSessions
  <2>2. th' = [th EXCEPT ![t] = [Idle EXCEPT !.at = "shutdown", !.todo = sessions]]
    BY <2>1 DEF RemoveAllSessions
  <2>3. th'[t] = State("shutdown", None, None, sessions, NoGid)
    BY <2>1, <2>2 DEF State, Idle
  <2>4. State("shutdown", None, None, sessions, NoGid) \in ThreadState
    BY <2>1 DEF State, ThreadState, At
  <2> QED BY <2>1, <2>2, <2>3, <2>4, MovesTo
<1>3. Counted'
    BY <1>1, <1>2, CountKeep DEF Moves, State, Shape, Shaped, Idle
<1>4. TypeOK'
    BY <1>1, <1>2, <1>3 DEF Moves, TypeOK
<1>5. Shape'
  <2>1. Shaped(State("shutdown", None, None, sessions, NoGid))
    BY <1>1, <1>2 DEF State, Shaped, Deleting
  <2> QED BY <1>2, <2>1, ShapeKept
<1>6. (MainWaits /\ LockedExists /\ NotHeld)'
    BY <1>1, <1>2 DEF Moves, State, MainWaits, Shape, Shaped, Deleting, LockedExists, NotHeld
<1>7. Fresh'
    BY <1>1, <1>2 DEF Moves, State, Fresh, Unborn, Creating
<1>8. DeletedOnce'
    BY <1>1, <1>2 DEF Moves, State, DeletedOnce
<1>9. (GroupFresh /\ GroupIds)'
    BY <1>1, <1>2 DEF Moves, State, GroupFresh, InGroup, GroupIds
<1>10. OrphanHasId'
    BY <1>1, <1>2 DEF Moves, State, OrphanHasId
<1>11. SessionKeepsGroup'
    BY <1>1, <1>2 DEF Moves, State, SessionKeepsGroup
<1>12. ListedGroupHasOwner'
    BY <1>1, <1>2 DEF Moves, ListedGroupHasOwner
<1> QED BY <1>3, <1>4, <1>5, <1>6, <1>7, <1>8, <1>9, <1>10, <1>11, <1>12

\* The step Shutdown: nobody has the session locked, its destructor starts.
LEMMA ShutdownInv ==
    ASSUME IInv, NEW t \in Threads, NEW s \in Sids, Shutdown(t, s)
    PROVE  IInv'
<1> USE IdsAssumption, ThreadsAssumption DEF IInv
<1>1. /\ s \in th[t].todo /\ ref[s] = 0
      /\ UNCHANGED <<sessions, obj, ref, expired, gid, group, groups, gobj, members, stopped>>
    BY DEF Shutdown, groupVars
<1>2. Moves(t, "shutdown", State("release", th[t].held, s, th[t].todo \ {s}, th[t].id))
  <2>1. th \in [Threads -> ThreadState] /\ sessions \subseteq Sids /\ th[t].at = "shutdown"
    BY DEF TypeOK, Shutdown
  <2>2. th' = [th EXCEPT ![t] = [th[t] EXCEPT !.at = "release", !.s = s, !.todo = th[t].todo \ {s}]]
    BY <2>1 DEF Shutdown
  <2>3. th'[t] = State("release", th[t].held, s, th[t].todo \ {s}, th[t].id)
    BY <2>1, <2>2 DEF State, ThreadState
  <2>4. State("release", th[t].held, s, th[t].todo \ {s}, th[t].id) \in ThreadState
    BY <2>1 DEF State, ThreadState, At
  <2> QED BY <2>1, <2>2, <2>3, <2>4, MovesTo
<1>3. Counted'
    BY <1>1, <1>2, CountKeep DEF Moves, State
<1>4. TypeOK'
    BY <1>1, <1>2, <1>3 DEF Moves, TypeOK
<1>5. Shape'
  <2>1. Shaped(State("release", th[t].held, s, th[t].todo \ {s}, th[t].id))
    BY <1>1, <1>2 DEF Moves, State, Shape, Shaped
  <2> QED BY <1>2, <2>1, ShapeKept
<1>6. NotHeld'
  <2>1. Holders(s) = {}
    BY <1>1, HoldersFinite, FS_EmptySet DEF Counted
  <2> QED BY <1>2, <2>1 DEF Moves, State, NotHeld, Holders
<1>7. (MainWaits /\ LockedExists)'
    BY <1>1, <1>2 DEF Moves, State, MainWaits, LockedExists
<1>8. Fresh'
    BY <1>1, <1>2 DEF Moves, State, Fresh, Unborn, Creating
<1>9. DeletedOnce'
    BY <1>1, <1>2 DEF Moves, State, DeletedOnce
<1>10. (GroupFresh /\ GroupIds)'
    BY <1>1, <1>2 DEF Moves, State, GroupFresh, InGroup, GroupIds
<1>11. OrphanHasId'
    BY <1>1, <1>2 DEF Moves, State, OrphanHasId
<1>12. SessionKeepsGroup'
    BY <1>1, <1>2 DEF Moves, State, SessionKeepsGroup
<1>13. ListedGroupHasOwner'
    BY <1>1, <1>2 DEF Moves, ListedGroupHasOwner
<1> QED BY <1>3, <1>4, <1>5, <1>6, <1>7, <1>8, <1>9, <1>10, <1>11, <1>12, <1>13

\* The step ShutdownTimeout: a session that stays locked is leaked.
LEMMA ShutdownTimeoutInv ==
    ASSUME IInv, NEW t \in Threads, NEW s \in Sids, ShutdownTimeout(t, s)
    PROVE  IInv'
<1> USE IdsAssumption, ThreadsAssumption DEF IInv
<1>1. /\ s \in th[t].todo /\ obj' = [obj EXCEPT ![s] = "leaked"]
      /\ UNCHANGED <<sessions, ref, expired, gid, group, groups, gobj, members, stopped>>
    BY DEF ShutdownTimeout, groupVars
<1>2. Moves(t, "shutdown", State("shutdown", th[t].held, th[t].s, th[t].todo \ {s}, th[t].id))
  <2>1. th \in [Threads -> ThreadState] /\ sessions \subseteq Sids /\ th[t].at = "shutdown"
    BY DEF TypeOK, ShutdownTimeout
  <2>2. th' = [th EXCEPT ![t] = [th[t] EXCEPT !.todo = th[t].todo \ {s}]]
    BY <2>1 DEF ShutdownTimeout
  <2>3. th'[t] = State("shutdown", th[t].held, th[t].s, th[t].todo \ {s}, th[t].id)
    BY <2>1, <2>2 DEF State, ThreadState
  <2>4. State("shutdown", th[t].held, th[t].s, th[t].todo \ {s}, th[t].id) \in ThreadState
    BY <2>1 DEF State, ThreadState
  <2> QED BY <2>1, <2>2, <2>3, <2>4, MovesTo
<1>3. Counted'
    BY <1>1, <1>2, CountKeep DEF Moves, State
<1>4. TypeOK'
    BY <1>1, <1>2, <1>3 DEF Moves, TypeOK
<1>5. Shape'
  <2>1. Shaped(State("shutdown", th[t].held, th[t].s, th[t].todo \ {s}, th[t].id))
    BY <1>1, <1>2 DEF Moves, State, Shape, Shaped
  <2> QED BY <1>2, <2>1, ShapeKept
<1>6. (MainWaits /\ LockedExists /\ NotHeld)'
    BY <1>1, <1>2 DEF Moves, State, MainWaits, LockedExists, NotHeld
<1>7. Fresh'
    BY <1>1, <1>2 DEF Moves, State, Fresh, Unborn
<1>8. DeletedOnce'
    BY <1>1, <1>2 DEF Moves, State, DeletedOnce
<1>9. (GroupFresh /\ GroupIds)'
    BY <1>1, <1>2 DEF Moves, State, Fresh, Unborn, GroupFresh, InGroup, GroupIds
<1>10. OrphanHasId'
    BY <1>1, <1>2 DEF Moves, State, OrphanHasId
<1>11. SessionKeepsGroup'
    BY <1>1, <1>2 DEF Moves, State, SessionKeepsGroup
<1>12. ListedGroupHasOwner'
    BY <1>1, <1>2 DEF Moves, ListedGroupHasOwner
<1> QED BY <1>3, <1>4, <1>5, <1>6, <1>7, <1>8, <1>9, <1>10, <1>11, <1>12

\* The step Deleted of a thread without a session of its own.
LEMMA AllDeletedInv ==
    ASSUME IInv, NEW t \in Threads, Deleted(t), th[t].held = None
    PROVE  IInv'
<1> USE IdsAssumption, ThreadsAssumption DEF IInv
<1>1. /\ th[t].todo = {}
      /\ UNCHANGED <<sessions, obj, ref, expired, gid, group, groups, gobj, members, stopped>>
    BY DEF Deleted, groupVars
<1>2. Moves(t, "shutdown", State("idle", th[t].held, th[t].s, th[t].todo, th[t].id))
  <2>1. th \in [Threads -> ThreadState] /\ sessions \subseteq Sids /\ th[t].at = "shutdown"
    BY DEF TypeOK, Deleted
  <2>2. th' = [th EXCEPT ![t] = [th[t] EXCEPT !.at = "idle"]]
    BY <2>1 DEF Deleted, Goto
  <2>3. th'[t] = State("idle", th[t].held, th[t].s, th[t].todo, th[t].id)
    BY <2>1, <2>2 DEF State, ThreadState
  <2>4. State("idle", th[t].held, th[t].s, th[t].todo, th[t].id) \in ThreadState
    BY <2>1 DEF State, ThreadState, At
  <2> QED BY <2>1, <2>2, <2>3, <2>4, MovesTo
<1>3. Counted'
    BY <1>1, <1>2, CountKeep DEF Moves, State
<1>4. TypeOK'
    BY <1>1, <1>2, <1>3 DEF Moves, TypeOK
<1>5. Shape'
  <2>1. Shaped(State("idle", th[t].held, th[t].s, th[t].todo, th[t].id))
    BY <1>1, <1>2 DEF Moves, State, Shape, Shaped, Idle, Deleting
  <2> QED BY <1>2, <2>1, ShapeKept
<1>6. (MainWaits /\ LockedExists /\ NotHeld)'
    BY <1>1, <1>2 DEF Moves, State, MainWaits, Deleting, LockedExists, NotHeld
<1>7. Fresh'
    BY <1>1, <1>2 DEF Moves, State, Fresh, Unborn, Creating
<1>8. DeletedOnce'
    BY <1>1, <1>2 DEF Moves, State, DeletedOnce
<1>9. (GroupFresh /\ GroupIds)'
    BY <1>1, <1>2 DEF Moves, State, GroupFresh, InGroup, GroupIds
<1>10. OrphanHasId'
    BY <1>1, <1>2 DEF Moves, State, OrphanHasId
<1>11. SessionKeepsGroup'
    BY <1>1, <1>2 DEF Moves, State, SessionKeepsGroup
<1>12. ListedGroupHasOwner'
    BY <1>1, <1>2 DEF Moves, ListedGroupHasOwner
<1> QED BY <1>3, <1>4, <1>5, <1>6, <1>7, <1>8, <1>9, <1>10, <1>11, <1>12

\* The step Deleted of the call that kills the other sessions.
LEMMA BackToWorkInv ==
    ASSUME IInv, NEW t \in Threads, Deleted(t), th[t].held # None
    PROVE  IInv'
<1> USE IdsAssumption, ThreadsAssumption DEF IInv
<1>1. /\ th[t].todo = {}
      /\ UNCHANGED <<sessions, obj, ref, expired, gid, group, groups, gobj, members, stopped>>
    BY DEF Deleted, groupVars
<1>2. Moves(t, "shutdown", State("work", th[t].held, th[t].s, th[t].todo, th[t].id))
  <2>1. th \in [Threads -> ThreadState] /\ sessions \subseteq Sids /\ th[t].at = "shutdown"
    BY DEF TypeOK, Deleted
  <2>2. th' = [th EXCEPT ![t] = [th[t] EXCEPT !.at = "work"]]
    BY <2>1 DEF Deleted, Goto
  <2>3. th'[t] = State("work", th[t].held, th[t].s, th[t].todo, th[t].id)
    BY <2>1, <2>2 DEF State, ThreadState
  <2>4. State("work", th[t].held, th[t].s, th[t].todo, th[t].id) \in ThreadState
    BY <2>1 DEF State, ThreadState, At
  <2> QED BY <2>1, <2>2, <2>3, <2>4, MovesTo
<1>3. Counted'
    BY <1>1, <1>2, CountKeep DEF Moves, State
<1>4. TypeOK'
    BY <1>1, <1>2, <1>3 DEF Moves, TypeOK
<1>5. Shape'
  <2>1. Shaped(State("work", th[t].held, th[t].s, th[t].todo, th[t].id))
    BY <1>1, <1>2 DEF Moves, State, Shape, Shaped, Deleting
  <2> QED BY <1>2, <2>1, ShapeKept
<1>6. (MainWaits /\ LockedExists /\ NotHeld)'
    BY <1>1, <1>2 DEF Moves, State, MainWaits, Deleting, LockedExists, NotHeld
<1>7. Fresh'
    BY <1>1, <1>2 DEF Moves, State, Fresh, Unborn, Creating
<1>8. DeletedOnce'
    BY <1>1, <1>2 DEF Moves, State, DeletedOnce
<1>9. (GroupFresh /\ GroupIds)'
    BY <1>1, <1>2 DEF Moves, State, GroupFresh, InGroup, GroupIds
<1>10. OrphanHasId'
    BY <1>1, <1>2 DEF Moves, State, OrphanHasId
<1>11. SessionKeepsGroup'
    BY <1>1, <1>2 DEF Moves, State, SessionKeepsGroup
<1>12. ListedGroupHasOwner'
    BY <1>1, <1>2 DEF Moves, ListedGroupHasOwner
<1> QED BY <1>3, <1>4, <1>5, <1>6, <1>7, <1>8, <1>9, <1>10, <1>11, <1>12

\* The step Release: the session leaves its group.
LEMMA ReleaseInv ==
    ASSUME IInv, NEW t \in Threads, Release(t)
    PROVE  IInv'
<1> USE IdsAssumption, ThreadsAssumption DEF IInv
<1>1. /\ members' = [members EXCEPT ![group[th[t].s]] = @ \ {th[t].s}]
      /\ UNCHANGED <<sessions, obj, ref, expired, gid, group, groups, gobj, stopped>>
    BY DEF Release
<1>2. Moves(t, "release", State("unsubscribe", th[t].held, th[t].s, th[t].todo, th[t].id))
  <2>1. th \in [Threads -> ThreadState] /\ sessions \subseteq Sids /\ th[t].at = "release"
    BY DEF TypeOK, Release
  <2>2. th' = [th EXCEPT ![t] = [th[t] EXCEPT !.at = "unsubscribe"]]
    BY <2>1 DEF Release, Goto
  <2>3. th'[t] = State("unsubscribe", th[t].held, th[t].s, th[t].todo, th[t].id)
    BY <2>1, <2>2 DEF State, ThreadState
  <2>4. State("unsubscribe", th[t].held, th[t].s, th[t].todo, th[t].id) \in ThreadState
    BY <2>1 DEF State, ThreadState, At
  <2> QED BY <2>1, <2>2, <2>3, <2>4, MovesTo
<1>3. Counted'
    BY <1>1, <1>2, CountKeep DEF Moves, State
<1>4. TypeOK'
    BY <1>1, <1>2, <1>3 DEF Moves, TypeOK
<1>5. Shape'
  <2>1. Shaped(State("unsubscribe", th[t].held, th[t].s, th[t].todo, th[t].id))
    BY <1>1, <1>2 DEF Moves, State, Shape, Shaped, Deleting
  <2> QED BY <1>2, <2>1, ShapeKept
<1>6. (MainWaits /\ LockedExists /\ NotHeld)'
    BY <1>1, <1>2 DEF Moves, State, MainWaits, Deleting, LockedExists, NotHeld
<1>7. Fresh'
    BY <1>1, <1>2 DEF Moves, State, Fresh, Unborn, Creating
<1>8. DeletedOnce'
    BY <1>1, <1>2 DEF Moves, State, DeletedOnce
<1>9. (GroupFresh /\ GroupIds)'
    BY <1>1, <1>2 DEF Moves, State, GroupFresh, InGroup, GroupIds
<1>10. OrphanHasId'
    BY <1>1, <1>2 DEF Moves, State, OrphanHasId
<1>11. SessionKeepsGroup'
  <2> PICK s \in Sids : s = th[t].s
    BY <1>2 DEF Moves, Shape, Shaped, Deleting, TypeOK, ThreadState
  <2>1. \A r \in Sids : Used(r)' => Used(r)
    BY <1>1, <1>2 DEF Moves, State, Used
  <2>2. ~Used(s)'
    BY <1>1, <1>2 DEF Moves, State, TypeOK, Used, Shape, Shaped, NotHeld, DeletedOnce, Fresh,
       Unborn, Creating, Deleting
  <2>3. \A r \in Sids : Used(r) =>
            group[r] \in Sids /\ gobj[group[r]] = "live" /\ r \in members[group[r]]
    BY UsedInGroup
  <2>4. \A r \in Sids : Used(r)' => gobj'[group'[r]] = "live" /\ r \in members'[group'[r]]
    BY <1>1, <2>1, <2>2, <2>3
  <2> QED BY <2>4 DEF SessionKeepsGroup, Used
<1>12. ListedGroupHasOwner'
  <2>1. ASSUME NEW f \in Gids, groups[f] # None, members'[groups[f]] # members[groups[f]]
        PROVE  group[th[t].s] = groups[f]
    BY <1>1, <2>1
  <2>2. \A u \in Threads : th[u].at \in {"unsubscribe", "orphan", "orphanLock"} => th'[u] = th[u]
    BY <1>2 DEF Moves
  <2>3. th'[t].at = "unsubscribe" /\ th'[t].s = th[t].s
    BY <1>2 DEF Moves, State, TypeOK
  <2> QED BY <1>1, <2>1, <2>2, <2>3 DEF ListedGroupHasOwner
<1> QED BY <1>3, <1>4, <1>5, <1>6, <1>7, <1>8, <1>9, <1>10, <1>11, <1>12

\* The step ReleaseSubscriptions: the group's lists are not modelled here.
LEMMA ReleaseSubscriptionsInv ==
    ASSUME IInv, NEW t \in Threads, ReleaseSubscriptions(t)
    PROVE  IInv'
<1> USE IdsAssumption, ThreadsAssumption DEF IInv
<1>1. /\ UNCHANGED <<sessions, obj, ref, expired, gid, group, groups, gobj, members, stopped>>
    BY DEF ReleaseSubscriptions, groupVars
<1>2. Moves(t, "unsubscribe", State("orphan", th[t].held, th[t].s, th[t].todo, th[t].id))
  <2>1. th \in [Threads -> ThreadState] /\ sessions \subseteq Sids /\ th[t].at = "unsubscribe"
    BY DEF TypeOK, ReleaseSubscriptions
  <2>2. th' = [th EXCEPT ![t] = [th[t] EXCEPT !.at = "orphan"]]
    BY <2>1 DEF ReleaseSubscriptions, Goto
  <2>3. th'[t] = State("orphan", th[t].held, th[t].s, th[t].todo, th[t].id)
    BY <2>1, <2>2 DEF State, ThreadState
  <2>4. State("orphan", th[t].held, th[t].s, th[t].todo, th[t].id) \in ThreadState
    BY <2>1 DEF State, ThreadState, At
  <2> QED BY <2>1, <2>2, <2>3, <2>4, MovesTo
<1>3. Counted'
    BY <1>1, <1>2, CountKeep DEF Moves, State
<1>4. TypeOK'
    BY <1>1, <1>2, <1>3 DEF Moves, TypeOK
<1>5. Shape'
  <2>1. Shaped(State("orphan", th[t].held, th[t].s, th[t].todo, th[t].id))
    BY <1>1, <1>2 DEF Moves, State, Shape, Shaped, Deleting
  <2> QED BY <1>2, <2>1, ShapeKept
<1>6. (MainWaits /\ LockedExists /\ NotHeld)'
    BY <1>1, <1>2 DEF Moves, State, MainWaits, Deleting, LockedExists, NotHeld
<1>7. Fresh'
    BY <1>1, <1>2 DEF Moves, State, Fresh, Unborn, Creating
<1>8. DeletedOnce'
    BY <1>1, <1>2 DEF Moves, State, DeletedOnce
<1>9. (GroupFresh /\ GroupIds)'
    BY <1>1, <1>2 DEF Moves, State, GroupFresh, InGroup, GroupIds
<1>10. OrphanHasId'
    BY <1>1, <1>2 DEF Moves, State, OrphanHasId
<1>11. SessionKeepsGroup'
    BY <1>1, <1>2 DEF Moves, State, SessionKeepsGroup
<1>12. ListedGroupHasOwner'
    BY <1>1, <1>2 DEF Moves, State, Idle, ListedGroupHasOwner
<1> QED BY <1>3, <1>4, <1>5, <1>6, <1>7, <1>8, <1>9, <1>10, <1>11, <1>12

\* The step OrphanId: the group's id is read, from a freed group it may be anything.
LEMMA OrphanIdInv ==
    ASSUME IInv, NEW t \in Threads, OrphanId(t)
    PROVE  IInv'
<1> USE IdsAssumption, ThreadsAssumption DEF IInv
<1>0. PICK i \in Gids \cup {NoGid} :
          /\ i = gid[th[t].s] \/ gobj[group[th[t].s]] = "freed"
          /\ th' = [th EXCEPT ![t] = [th[t] EXCEPT !.at = "orphanLock", !.id = i]]
    BY DEF OrphanId, TypeOK, Shape, Shaped, Deleting, ThreadState
<1>1. /\ i = gid[th[t].s] \/ gobj[group[th[t].s]] = "freed"
      /\ UNCHANGED <<sessions, obj, ref, expired, gid, group, groups, gobj, members, stopped>>
    BY <1>0 DEF OrphanId, groupVars
<1>2. Moves(t, "orphan", State("orphanLock", th[t].held, th[t].s, th[t].todo, i))
  <2>1. th \in [Threads -> ThreadState] /\ th[t].at = "orphan"
    BY DEF TypeOK, OrphanId
  <2>2. th' = [th EXCEPT ![t] = [th[t] EXCEPT !.at = "orphanLock", !.id = i]]
    BY <1>0
  <2>3. th'[t] = State("orphanLock", th[t].held, th[t].s, th[t].todo, i)
    BY <2>1, <2>2 DEF State, ThreadState
  <2>4. State("orphanLock", th[t].held, th[t].s, th[t].todo, i) \in ThreadState
    BY <2>1 DEF State, ThreadState, At
  <2> QED BY <2>1, <2>2, <2>3, <2>4, MovesTo
<1>3. Counted'
    BY <1>1, <1>2, CountKeep DEF Moves, State
<1>4. TypeOK'
    BY <1>1, <1>2, <1>3 DEF Moves, TypeOK
<1>5. Shape'
  <2>1. Shaped(State("orphanLock", th[t].held, th[t].s, th[t].todo, i))
    BY <1>1, <1>2 DEF Moves, State, Shape, Shaped, Deleting
  <2> QED BY <1>2, <2>1, ShapeKept
<1>6. (MainWaits /\ LockedExists /\ NotHeld)'
    BY <1>1, <1>2 DEF Moves, State, MainWaits, Deleting, LockedExists, NotHeld
<1>7. Fresh'
    BY <1>1, <1>2 DEF Moves, State, Fresh, Unborn, Creating
<1>8. DeletedOnce'
    BY <1>1, <1>2 DEF Moves, State, DeletedOnce
<1>9. (GroupFresh /\ GroupIds)'
    BY <1>1, <1>2 DEF Moves, State, GroupFresh, InGroup, GroupIds
<1>10. OrphanHasId'
    BY <1>1, <1>2 DEF Moves, State, OrphanHasId
<1>11. SessionKeepsGroup'
    BY <1>1, <1>2 DEF Moves, State, SessionKeepsGroup
<1>12. ListedGroupHasOwner'
    BY <1>1, <1>2 DEF Moves, State, Shape, Deleting, ListedGroupHasOwner, GroupIds
<1> QED BY <1>3, <1>4, <1>5, <1>6, <1>7, <1>8, <1>9, <1>10, <1>11, <1>12

\* The step DeleteIfOrphaned: a group without members leaves the list and is deleted.
LEMMA DeleteIfOrphanedInv ==
    ASSUME IInv, NEW t \in Threads, DeleteIfOrphaned(t)
    PROVE  IInv'
<1> USE IdsAssumption, ThreadsAssumption DEF IInv
<1>0. /\ th[t].at = "orphanLock" /\ th[t].s \in Sids /\ group[th[t].s] \in Sids
      /\ th[t].id = gid[th[t].s] \/ gobj[group[th[t].s]] = "freed"
      /\ \/ /\ th[t].id = NoGid
            /\ gobj' = [gobj EXCEPT ![group[th[t].s]] = "freed"] /\ groups' = groups
         \/ /\ th[t].id \in Gids /\ groups[th[t].id] # None /\ members[groups[th[t].id]] = {}
            /\ gobj' = [gobj EXCEPT ![groups[th[t].id]] = "freed"]
            /\ groups' = [groups EXCEPT ![th[t].id] = None]
         \/ /\ th[t].id \in Gids /\ (groups[th[t].id] = None \/ members[groups[th[t].id]] # {})
            /\ gobj' = gobj /\ groups' = groups
  <2>1. th[t].at = "orphanLock" /\ th[t].id \in Gids \cup {NoGid}
    BY DEF DeleteIfOrphaned, TypeOK, ThreadState
  <2>2. th[t].s \in Sids /\ group[th[t].s] \in Sids
    BY <2>1, UsedInGroup DEF Deleting
  <2>3. th[t].id = gid[th[t].s] \/ gobj[group[th[t].s]] = "freed"
    BY <2>1 DEF OrphanHasId
  <2> QED BY <2>1, <2>2, <2>3 DEF DeleteIfOrphaned
<1>1. /\ obj' = [obj EXCEPT ![th[t].s] = "freed"]
      /\ UNCHANGED <<sessions, ref, expired, gid, group, members, stopped>>
    BY DEF DeleteIfOrphaned, SessionFreed
<1>2. Moves(t, "orphanLock", State("shutdown", th[t].held, None, th[t].todo, NoGid))
  <2>1. th \in [Threads -> ThreadState] /\ sessions \subseteq Sids /\ th[t].at = "orphanLock"
    BY DEF TypeOK, DeleteIfOrphaned
  <2>2. th' = [th EXCEPT ![t] = [th[t] EXCEPT !.at = "shutdown", !.s = None, !.id = NoGid]]
    BY <2>1 DEF DeleteIfOrphaned, SessionFreed
  <2>3. th'[t] = State("shutdown", th[t].held, None, th[t].todo, NoGid)
    BY <2>1, <2>2 DEF State, ThreadState
  <2>4. State("shutdown", th[t].held, None, th[t].todo, NoGid) \in ThreadState
    BY <2>1 DEF State, ThreadState, At
  <2> QED BY <2>1, <2>2, <2>3, <2>4, MovesTo
<1>3. Counted'
    BY <1>1, <1>2, CountKeep DEF Moves, State
<1>4. TypeOK'
    BY <1>0, <1>1, <1>2, <1>3 DEF Moves, TypeOK
<1>5. Shape'
  <2>1. Shaped(State("shutdown", th[t].held, None, th[t].todo, NoGid))
    BY <1>1, <1>2 DEF State, Shaped, Deleting
  <2> QED BY <1>2, <2>1, ShapeKept
<1>6. (MainWaits /\ LockedExists /\ NotHeld)'
    BY <1>1, <1>2 DEF Moves, State, MainWaits, Deleting, LockedExists, NotHeld
<1>7. Fresh'
    BY <1>1, <1>2 DEF Moves, State, TypeOK, Fresh, Unborn, Creating
<1>8. DeletedOnce'
    BY <1>1, <1>2 DEF Moves, State, DeletedOnce
<1>9. GroupFresh'
  <2>1. \A r \in Sids : gobj'[r] # gobj[r] => gobj[r] # "none"
    BY <1>0 DEF GroupIds, TypeOK
  <2>2. \A r \in Sids : gobj'[r] = "none" <=> gobj[r] = "none"
    BY <1>0, <2>1 DEF TypeOK
  <2>3. \A r \in Sids : InGroup(r)' <=> InGroup(r)
    BY <1>0, <1>1, <1>2 DEF InGroup, Moves, State, Fresh, Unborn, Creating
  <2>4. \A u \in Threads : th'[u].at = "upgrade" => th'[u] = th[u]
    BY <1>2 DEF Moves, State
  <2> QED BY <1>1, <2>2, <2>3, <2>4 DEF GroupFresh
<1>10. GroupIds'
  <2>1. \A r \in Sids : gobj[r] # "none" => gobj'[r] # "none"
    BY <1>0 DEF TypeOK
  <2>2. \A r \in Sids : group[r] # None => group[r] \in Sids
    BY DEF TypeOK
  <2>3. ASSUME NEW f \in Gids, groups'[f] # None
        PROVE  gobj'[groups'[f]] = "live" /\ gid[groups'[f]] = f
    BY <1>0, <2>3 DEF GroupIds, TypeOK
  <2> QED BY <1>1, <2>1, <2>2, <2>3 DEF GroupIds
<1>11. OrphanHasId'
  <2>1. \A u \in Threads : th[u].at = "orphanLock" => th[u].s \in Sids /\ group[th[u].s] \in Sids
    BY UsedInGroup DEF Deleting
  <2>2. \A r \in Sids : gobj[r] = "freed" => gobj'[r] = "freed"
    BY <1>0 DEF TypeOK
  <2> QED BY <1>1, <1>2, <2>1, <2>2 DEF Moves, State, OrphanHasId
<1>12. SessionKeepsGroup'
  <2> PICK s \in Sids : s = th[t].s
    BY <1>0
  <2>1. \A r \in Sids : Used(r)' => Used(r)
    BY <1>1, <1>2 DEF Moves, State, Used
  <2>2. ~Used(s)
    BY <1>0 DEF Used, Shape, Shaped, NotHeld, DeletedOnce, Fresh, Unborn, Creating, Deleting
  <2>3. \A r \in Sids : Used(r) =>
            group[r] \in Sids /\ gobj[group[r]] = "live" /\ r \in members[group[r]]
    BY UsedInGroup
  <2>4. ASSUME NEW r \in Sids, Used(r)
        PROVE  gobj'[group[r]] = "live"
    BY <1>0, <2>2, <2>3, <2>4 DEF GroupIds, TypeOK
  <2> QED BY <1>1, <2>1, <2>3, <2>4 DEF SessionKeepsGroup, Used
<1>13. ListedGroupHasOwner'
  <2>1. ASSUME NEW f \in Gids, groups'[f] # None
        PROVE  groups'[f] = groups[f] /\ gobj'[groups[f]] = "live"
    BY <1>0, <2>1 DEF GroupIds, TypeOK
  <2>2. ASSUME NEW f \in Gids, groups'[f] # None, members[groups[f]] = {}
        PROVE  group[th[t].s] # groups[f]
    BY <1>0, <2>2 DEF GroupIds, TypeOK
  <2>3. \A u \in Threads \ {t} : th'[u] = th[u]
    BY <1>2 DEF Moves
  <2> QED BY <1>1, <2>1, <2>2, <2>3 DEF ListedGroupHasOwner
<1> QED BY <1>3, <1>4, <1>5, <1>6, <1>7, <1>8, <1>9, <1>10, <1>11, <1>12, <1>13

\* The step Expire: the time of a session is up.
LEMMA ExpireInv ==
    ASSUME IInv, NEW s \in Sids, Expire(s)
    PROVE  IInv'
<1>1. /\ UNCHANGED <<sessions, obj, ref, gid, group, groups, gobj, members, th, stopped>>
      /\ expired' = expired \cup {s}
    BY DEF Expire, groupVars
<1> QED BY <1>1 DEF IInv, TypeOK, Shape, MainWaits, Fresh, Unborn, LockedExists, Counted,
           Holders, DeletedOnce, NotHeld, GroupFresh, InGroup, GroupIds, OrphanHasId,
           SessionKeepsGroup, ListedGroupHasOwner

\* A step that changes nothing.
LEMMA StutterInv ==
    ASSUME IInv, UNCHANGED vars
    PROVE  IInv'
BY DEF vars, IInv, TypeOK, Shape, MainWaits, Fresh, Unborn, LockedExists, Counted, Holders,
   DeletedOnce, NotHeld, GroupFresh, InGroup, GroupIds, OrphanHasId, SessionKeepsGroup,
   ListedGroupHasOwner

\* At first there is no session, no group and every thread waits.
LEMMA InitInv == Init => IInv
<1> SUFFICES ASSUME Init PROVE IInv
    OBVIOUS
<1> USE IdsAssumption, ThreadsAssumption DEF Init
<1>1. TypeOK
    BY DEF TypeOK, ThreadState, At, Idle
<1>2. Shape /\ MainWaits
    BY DEF Shape, Shaped, MainWaits, Idle, Threads, Deleting
<1>3. Fresh
    BY DEF Fresh, Unborn, Idle, Creating
<1>4. LockedExists /\ NotHeld
    BY DEF LockedExists, NotHeld, Idle, Deleting
<1>5. Counted
  <2>1. \A s \in Sids : Holders(s) = {}
      BY DEF Holders, Idle
  <2> QED BY <2>1, FS_EmptySet DEF Counted
<1>6. DeletedOnce
    BY DEF DeletedOnce, Idle
<1>7. GroupFresh
    BY DEF GroupFresh, InGroup, Idle
<1>8. GroupIds
    BY DEF GroupIds
<1>9. OrphanHasId
    BY DEF OrphanHasId, Idle
<1>10. SessionKeepsGroup /\ ListedGroupHasOwner
    BY DEF SessionKeepsGroup, ListedGroupHasOwner, Idle
<1> QED BY <1>1, <1>2, <1>3, <1>4, <1>5, <1>6, <1>7, <1>8, <1>9, <1>10 DEF IInv

\* The steps of a delete.
LEMMA DeleteInv ==
    ASSUME IInv, NEW t \in Threads, Delete(t)
    PROVE  IInv'
<1>1. CASE Deleted(t)
    BY <1>1, AllDeletedInv, BackToWorkInv
<1> QED BY <1>1, ShutdownInv, ShutdownTimeoutInv, ReleaseInv, ReleaseSubscriptionsInv,
           OrphanIdInv, DeleteIfOrphanedInv DEF Delete

\* The steps of a thread that has begun something.
LEMMA ContinueInv ==
    ASSUME IInv, NEW t \in Threads, Continue(t)
    PROVE  IInv'
<1>1. CASE RemoveBusyState(t)
    BY <1>1, BusyStateFoundInv, BusyStateGoneInv
<1>2. CASE RemoveSession(t)
    BY <1>2, RemoveSessionInv, RemovedByOtherInv
<1> QED BY <1>1, <1>2, LogonUpgradeInv, RegisterInv, RegisterFailsInv, FinishInv,
           BusyStateRemovedInv, LogoffInv, CancelAllSessionsInv, DeleteInv DEF Continue

\* The invariant holds in every state.
LEMMA IInvHolds == Spec => []IInv
<1>1. IInv /\ [Next]_vars => IInv'
  <2> SUFFICES ASSUME IInv, [Next]_vars PROVE IInv'
      OBVIOUS
  <2>1. ASSUME NEW t \in Threads, NEW s \in Sids, NEW g \in Gids \cup {NoGid}, LogonFind(t, s, g)
        PROVE  IInv'
    <3>1. \/ g = NoGid
          \/ g \in Gids /\ groups[g] # None
          \/ g \in Gids /\ groups[g] = None
        OBVIOUS
    <3> QED BY <2>1, <3>1, LogonNewInv, LogonJoinsInv, LogonWaitsInv
  <2>2. Workers \subseteq Threads /\ Cleaner \in Threads /\ MainThread \in Threads
      BY DEF Threads
  <2>3. CASE AllDone \/ UNCHANGED vars
      BY <2>3, StutterInv DEF AllDone
  <2> QED BY <2>1, <2>2, <2>3, ContinueInv, ValidateSessionInv, ExpireInv, CleanInv,
             RemoveAllSessionsInv DEF Next
<1> QED BY <1>1, InitInv, PTL DEF Spec

\* Every variable keeps its type, for any finite set of workers, any sessions and group ids.
THEOREM TypesHold == Spec => []TypeOK
<1>1. IInv => TypeOK
    BY DEF IInv
<1> QED BY <1>1, IInvHolds, PTL

\* BTSession::Lock and Shutdown: a session that a call has locked is never deleted under it.
THEOREM LockedSessionsExist == Spec => []LockedSessionExists
<1>1. IInv => LockedSessionExists
    BY DEF IInv, LockedSessionExists, LockedExists, Counted, Holders
<1> QED BY <1>1, IInvHolds, PTL

\* RemoveSession, the cleaner, kill_sessions and the shutdown never delete a session twice,
\* whichever of them comes first.
THEOREM SessionsDeletedOnce == Spec => []DeletedOnce
<1>1. IInv => DeletedOnce
    BY DEF IInv
<1> QED BY <1>1, IInvHolds, PTL

\* A session that calls can still reach has a live group of which it is a member, whatever
\* logons, deletes and DeleteIfOrphaned of other sessions of that group do.
THEOREM SessionsKeepTheirGroup == Spec => []SessionKeepsGroup
<1>1. IInv => SessionKeepsGroup
    BY DEF IInv
<1> QED BY <1>1, IInvHolds, PTL

\* A group on the list has a member, or a session on its way to DeleteIfOrphaned: none stays
\* there for ever.
THEOREM ListedGroupsHaveOwners == Spec => []ListedGroupHasOwner
<1>1. IInv => ListedGroupHasOwner
    BY DEF IInv
<1> QED BY <1>1, IInvHolds, PTL
=============================================================================
