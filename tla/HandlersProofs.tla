--------------------------- MODULE HandlersProofs ---------------------------
(***************************************************************************)
(* Proofs about Locker and Handlers, for any sets of threads, action ids,  *)
(* handlers and slots: its safety properties.                              *)
(***************************************************************************)
EXTENDS Handlers, TLAPS

InMap == {"lookup", "linking"}

\* The lock of the map is held by the one thread that is between its lookup and the end
\* of its access, once.
MapIsLocked ==
    /\ \A t \in AllThreads : point[t] \in InMap <=> HeldBy(section["actions"], t)
    /\ section["actions"].count = IF section["actions"].owner = NoThread THEN 0 ELSE 1

\* The client's spit out handler runs under the lock of its slot.
SpitOutIsLocked ==
    /\ side = "client" =>
          \A r \in Readers :
             point[r] \in InSpitOut \cup InAction <=> HeldBy(section["spit_out"], r)
    /\ section["spit_out"].owner \in Readers \cup {NoThread}
    /\ section["spit_out"].count = IF section["spit_out"].owner = NoThread THEN 0 ELSE 1

\* Owners link, readers read.
PointsOfOwners == \A t \in Owners : point[t] \in {"idle", "wants", "linking"}

\* What a thread looks up or links is an id; a handler it links is one or is empty.
LocalsAreSet ==
    \A t \in AllThreads :
        /\ point[t] \in InMap \cup {"action"} => what[t] \in Ids
        /\ point[t] \in {"wants", "linking"} => with[t] \in Callables

\* An empty handler in the map was put there by an unlinking too many.
EmptyEntriesWereUnlinked == \A id \in Ids : actions[id] = Null => id \in emptied

HandlersInv ==
    /\ TypeOK
    /\ MapIsLocked
    /\ SpitOutIsLocked
    /\ PointsOfOwners
    /\ LocalsAreSet
    /\ EmptyEntriesWereUnlinked
    /\ IteratorsStayValid
    /\ EmptyCallNeedsTwoUnlinks

-----------------------------------------------------------------------------
(* Locker *)

\* A thread that leaves a section as often as it entered it leaves it as it was.
LEMMA LockUnlock ==
    ASSUME NEW T, NEW s \in Section(T), NEW t \in T, s.owner = NoThread <=> s.count = 0, MayEnter(s, t)
    PROVE  Lock(s, t) \in Section(T) /\ Unlock(Lock(s, t)) = s
<1>1. s = [owner |-> s.owner, count |-> s.count] /\ s.count \in Nat
  BY DEF Section
<1>2. CASE s.count = 0
  BY <1>1, <1>2 DEF Section, Lock, Unlock, Free
<1>3. CASE s.count # 0
  <2>1. s.owner = t
    BY <1>3 DEF MayEnter, HeldBy
  <2> QED
    BY <1>1, <1>3, <2>1 DEF Section, Lock, Unlock
<1> QED
  BY <1>2, <1>3

\* A CManualLock is safe to unlock twice, and its destructor gives back the section it
\* was made from, whether its owner unlocked it before or not.
LEMMA ManualLockRestores ==
    ASSUME NEW T, NEW s \in Section(T), NEW t \in T, s.owner = NoThread <=> s.count = 0,
           MayEnter(s, t), NEW lock \in BOOLEAN
    PROVE  LET m == ManualNew(s, t, lock) IN
             /\ ManualDelete(m) = s
             /\ ManualDelete(ManualUnlock(m)) = s
             /\ ManualDelete(ManualTryLock(m, t)) = s
<1>1. Unlock(Lock(s, t)) = s
  BY LockUnlock
<1>2. CASE lock
  BY <1>1, <1>2 DEF ManualNew, ManualDelete, ManualUnlock, ManualTryLock, ManualLock
<1>3. CASE ~lock
  BY <1>1, <1>3 DEF ManualNew, ManualDelete, ManualUnlock, ManualTryLock, ManualLock
<1> QED
  BY <1>2, <1>3

\* A CReverseLocker leaves the section to others only if its thread entered it once.
LEMMA ReverseLockerLeaves ==
    ASSUME NEW T, NEW s \in Section(T), NEW t \in T, HeldBy(s, t), s.count > 0
    PROVE  /\ ReverseDelete(ReverseNew(s), t) = s
           /\ s.count = 1 => ReverseNew(s) = Free
           /\ s.count > 1 => HeldBy(ReverseNew(s), t)
<1>1. s = [owner |-> t, count |-> s.count] /\ s.count \in Nat
  BY DEF Section, HeldBy
<1>2. CASE s.count = 1
  BY <1>1, <1>2 DEF ReverseNew, ReverseDelete, Unlock, Lock, Free
<1>3. CASE s.count > 1
  BY <1>1, <1>3 DEF ReverseNew, ReverseDelete, Unlock, Lock, HeldBy
<1> QED
  BY <1>1, <1>2, <1>3

-----------------------------------------------------------------------------

\* No handler is linked and nobody holds the lock.
LEMMA InitHasHandlersInv == Init => HandlersInv
  BY HandlersAssumption
     DEF Init, HandlersInv, TypeOK, Points, InSpitOut, InAction, Targets, Callables, AllThreads, Locks, Slots,
         Section, Free, HeldBy, InMap, MapIsLocked, SpitOutIsLocked, PointsOfOwners, LocalsAreSet,
         EmptyEntriesWereUnlinked, IteratorsStayValid, EmptyCallNeedsTwoUnlinks, Null, Missing

\* Every step of the linking and the calling threads keeps the invariant.
LEMMA HandlersStep == HandlersInv /\ [Next]_vars => HandlersInv'
<1> SUFFICES ASSUME HandlersInv, [Next]_vars PROVE HandlersInv'
    OBVIOUS
<1> USE HandlersAssumption
    DEF HandlersInv, TypeOK, Points, InSpitOut, InAction, Targets, Callables, AllThreads, Locks, Slots,
        Section, Free, HeldBy, InMap, MapIsLocked, SpitOutIsLocked, PointsOfOwners, LocalsAreSet,
        EmptyEntriesWereUnlinked, IteratorsStayValid, EmptyCallNeedsTwoUnlinks, Null, Missing,
        Goes, Done, Enters, Exits, Scoped, MayEnter, Lock, Unlock, Outside, registry, locals
<1>1. ASSUME NEW t \in Readers, MayRead(t), CompleteProc(t) PROVE HandlersInv'
  <2>1. CASE side = "client"
    <3>1. section["spit_out"].owner = NoThread
      BY <1>1, <2>1 DEF CompleteProc, MayRead
    <3>2. section' = [section EXCEPT !["spit_out"] = [owner |-> t, count |-> 1]]
      BY <1>1, <2>1, <3>1 DEF CompleteProc
    <3>3. SpitOutIsLocked'
      BY <1>1, <2>1, <3>1, <3>2 DEF CompleteProc
    <3>4. TypeOK'
      BY <1>1, <3>2 DEF CompleteProc
    <3> QED
      BY <1>1, <3>2, <3>3, <3>4 DEF CompleteProc
  <2>2. CASE side = "server"
    BY <1>1, <2>2 DEF CompleteProc
  <2> QED
    BY <2>1, <2>2
<1>2. ASSUME NEW t \in Readers, MayRead(t), SpitOutReturns(t) PROVE HandlersInv'
  BY <1>2 DEF SpitOutReturns, MayRead
<1>3. ASSUME NEW t \in Readers, MayRead(t), NEW id \in Ids, FindAction(t, id) PROVE HandlersInv'
  BY <1>3 DEF FindAction
<1>4. ASSUME NEW t \in Readers, CopyAction(t) PROVE HandlersInv'
  BY <1>4 DEF CopyAction
<1>5. ASSUME NEW t \in Readers, CallAction(t) PROVE HandlersInv'
  BY <1>5 DEF CallAction
<1>6. ASSUME NEW t \in Readers, ActionReturns(t) PROVE HandlersInv'
  BY <1>6 DEF ActionReturns
<1>7. ASSUME NEW t \in Readers, NEW s \in Callbacks, CopyCallback(t, s) PROVE HandlersInv'
  BY <1>7 DEF CopyCallback
<1>8. ASSUME NEW t \in Readers, TestCallback(t) PROVE HandlersInv'
  <2>1. CASE with[t] # Null
    BY <1>8, <2>1 DEF TestCallback
  <2>2. CASE with[t] = Null
    <3>1. /\ point' = [point EXCEPT ![t] = "idle"] /\ what' = [what EXCEPT ![t] = "all"]
          /\ with' = [with EXCEPT ![t] = Null] /\ found' = [found EXCEPT ![t] = FALSE]
          /\ UNCHANGED <<side, registry, section, emptied>>
      BY <1>8, <2>2, Zenon DEF TestCallback
    <3>2. IteratorsStayValid' /\ LocalsAreSet'
      BY <1>8, <2>2 DEF TestCallback
    <3>3. TypeOK'
      BY <3>1
    <3>4. MapIsLocked' /\ SpitOutIsLocked' /\ PointsOfOwners'
      BY <3>1, <1>8 DEF TestCallback
    <3> QED
      BY <3>1, <3>2, <3>3, <3>4
  <2> QED
    BY <2>1, <2>2
<1>9. ASSUME NEW t \in Readers, CallbackReturns(t) PROVE HandlersInv'
  BY <1>9 DEF CallbackReturns
<1>10. ASSUME NEW t \in AllThreads, NEW target \in Targets, NEW h \in Callables, Wants(t, target, h)
       PROVE HandlersInv'
  BY <1>10 DEF Wants
<1>11. ASSUME NEW t \in AllThreads, LinkSlot(t) PROVE HandlersInv'
  BY <1>11 DEF LinkSlot
<1>12. ASSUME NEW t \in AllThreads, Reset(t) PROVE HandlersInv'
  BY <1>12 DEF Reset
<1>13. ASSUME NEW t \in AllThreads, LinkFind(t) PROVE HandlersInv'
  <2>1. section["actions"].owner = NoThread
    BY <1>13 DEF LinkFind
  <2>2. section' = [section EXCEPT !["actions"] = [owner |-> t, count |-> 1]]
    BY <1>13, <2>1 DEF LinkFind
  <2>3. IteratorsStayValid'
    <3>1. found'[t] = (actions[what[t]] # Missing) /\ point'[t] = "linking"
      BY <1>13, Zenon DEF LinkFind
    <3>2. UNCHANGED <<actions, what>>
      BY <1>13 DEF LinkFind
    <3>3. ASSUME NEW x \in AllThreads, x # t
          PROVE  point'[x] # "lookup" /\ point'[x] # "linking"
      BY <1>13, <2>1, <3>3 DEF LinkFind
    <3>4. point'[t] # "lookup"
      BY <3>1
    <3>5. actions'[what'[t]] # Missing <=> actions[what[t]] # Missing
      BY <3>2
    <3>6. ASSUME NEW x \in AllThreads
          PROVE  /\ point'[x] = "lookup" => actions'[what'[x]] # Missing
                 /\ point'[x] = "linking" => (found'[x] <=> actions'[what'[x]] # Missing)
      <4>1. CASE x = t
        BY <3>1, <3>4, <3>5, <4>1, Zenon
      <4>2. CASE x # t
        BY <3>3, <4>2, Zenon
      <4> QED
        BY <4>1, <4>2
    <3> QED
      BY <3>6, Zenon DEF IteratorsStayValid
  <2> QED
    <3>1. TypeOK'
      BY <1>13, <2>2 DEF LinkFind
    <3>2. MapIsLocked'
      BY <1>13, <2>1, <2>2 DEF LinkFind
    <3>3. SpitOutIsLocked'
      BY <1>13, <2>2 DEF LinkFind
    <3> QED
      BY <1>13, <2>3, <3>1, <3>2, <3>3 DEF LinkFind
<1>14. ASSUME NEW t \in AllThreads, LinkStore(t) PROVE HandlersInv'
  BY <1>14 DEF LinkStore
<1>15. CASE UNCHANGED vars
  BY <1>15 DEF vars
<1> QED
  BY <1>1, <1>2, <1>3, <1>4, <1>5, <1>6, <1>7, <1>8, <1>9, <1>10, <1>11, <1>12, <1>13, <1>14, <1>15
     DEF Next, Reads, Links

\* The invariant of the linked handlers, in every reachable state.
LEMMA HandlersInvHolds == Spec => []HandlersInv
  BY InitHasHandlersInv, HandlersStep, PTL DEF Spec

-----------------------------------------------------------------------------

\* Type correctness.
THEOREM HandlersTypeCorrect == Spec => []TypeOK
  BY HandlersInvHolds, PTL DEF HandlersInv

\* psPerfomAction, pcPerfomAction and the linking functions never use an iterator that
\* another thread made invalid.
THEOREM IteratorsAreValid == Spec => []IteratorsStayValid
  BY HandlersInvHolds, PTL DEF HandlersInv

\* No action is called empty that was not unlinked while it was not linked.
THEOREM EmptyCallsNeedTwoUnlinks == Spec => []EmptyCallNeedsTwoUnlinks
  BY HandlersInvHolds, PTL DEF HandlersInv

\* pcLinkSpitOutHandler returns to another thread only when the replaced handler rests.
THEOREM ReplacedSpitOutRests == Spec => ReplacedSpitOutIsQuiet
<1>1. HandlersInv /\ [Next]_vars =>
        [\A t \in Owners :
            side = "client" /\ what[t] = "spit_out" /\ LinkSlot(t) =>
                \A r \in Readers : point[r] \notin InSpitOut \cup InAction]_vars
  BY HandlersAssumption DEF HandlersInv, SpitOutIsLocked, LinkSlot, Scoped, MayEnter, HeldBy, AllThreads
<1> QED
  BY <1>1, HandlersInvHolds, PTL DEF Spec, ReplacedSpitOutIsQuiet

=============================================================================
