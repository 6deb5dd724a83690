------------------------------- MODULE Locker -------------------------------
(***************************************************************************)
(* The locks of src/winapiPipe/Locker.h.  A CRITICAL_SECTION belongs to    *)
(* the thread that entered it, as often as that thread entered it.         *)
(* c_aux_locker wraps one; CScopedLock, CManualLock and CReverseLocker     *)
(* enter and leave it in their constructors and destructors;               *)
(* CInterThreadObject keeps a value that only a CObjectLocker, a           *)
(* CScopedLock itself, gives access to.  CManualLock and CReverseLocker    *)
(* have no user in the repository.                                         *)
(***************************************************************************)
EXTENDS Naturals

NoThread == "NoThread"

Section(T) == [owner : T \cup {NoThread}, count : Nat]

\* InitializeCriticalSection
Free == [owner |-> NoThread, count |-> 0]

HeldBy(s, t) == s.owner = t

\* What TryEnterCriticalSection tells; EnterCriticalSection waits for it.
MayEnter(s, t) == s.owner = NoThread \/ HeldBy(s, t)

\* c_aux_locker
Lock(s, t) == [owner |-> t, count |-> s.count + 1]
Unlock(s) == IF s.count = 1 THEN Free ELSE [s EXCEPT !.count = @ - 1]

\* One access to a value under its CScopedLock leaves the section as it was: with
\* nothing but assignments in it, it is one step, allowed when the thread may enter.
Scoped(s, t) == MayEnter(s, t)

-----------------------------------------------------------------------------
(* CManualLock: a section and m_locked *)

ManualLock(m, t) ==
    IF m.locked THEN m ELSE [section |-> Lock(m.section, t), locked |-> TRUE]

ManualUnlock(m) ==
    IF m.locked THEN [section |-> Unlock(m.section), locked |-> FALSE] ELSE m

ManualTryLock(m, t) == IF MayEnter(m.section, t) THEN ManualLock(m, t) ELSE m

\* CManualLock(r_auxlocker, lock) and ~CManualLock
ManualNew(s, t, lock) ==
    LET m == [section |-> s, locked |-> FALSE] IN IF lock THEN ManualLock(m, t) ELSE m

ManualDelete(m) == ManualUnlock(m).section

-----------------------------------------------------------------------------
(* CReverseLocker: leaves the section of a CLocker for its own lifetime *)

ReverseNew(s) == Unlock(s)
ReverseDelete(s, t) == Lock(s, t)

=============================================================================
