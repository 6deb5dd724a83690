------------------------ MODULE ServerRegistryProofs ------------------------
(***************************************************************************)
(* Proofs about ServerRegistry, for any set of threads, any sizes and any  *)
(* limit: its safety properties.                                           *)
(***************************************************************************)
EXTENDS ServerRegistry, TLAPS

\* What the owner's thread has done at each point of an operation.
OwnerKnows ==
    /\ m_auxLockObject <=> owner \in {"stopping", "lastStopping"}
    /\ owner \in {"insert", "resume"} => thread[current] = "created"
    /\ owner \in {"size", "waiting", "lastWaiting", "destroyed"} => m_pool_map = {}

\* Only a thread psRun is still making is suspended, ...
SuspendedIsCurrent ==
    \A t \in Threads : thread[t] = "created" => t = current /\ owner \in {"insert", "resume"}

\* ... only one that was told to leaves its loop, ...
LeavingIsTold == \A t \in Threads : thread[t] \in {"clean", "erase", "delete"} => ~bShutDown[t]

\* ... and one that was told to was told by psStop or is waited for.
ToldIsKnown ==
    \A t \in Threads : Alive(t) /\ ~bShutDown[t] => t \in stopped \/ t \in defered_handles

RegistryInv ==
    /\ TypeOK
    /\ OwnerKnows
    /\ SuspendedIsCurrent
    /\ LeavingIsTold
    /\ ToldIsKnown
    /\ EntriesAreLive
    /\ NoThreadIsLost
    /\ BufferSizeIsTold

-----------------------------------------------------------------------------

\* An empty registry.
LEMMA InitHasRegistryInv == Init => RegistryInv
  BY ServerRegistryAssumption
     DEF Init, RegistryInv, TypeOK, ThreadPoints, OwnerPoints, OwnerKnows, SuspendedIsCurrent, LeavingIsTold,
         ToldIsKnown, Alive, EntriesAreLive, NoThreadIsLost, BufferSizeIsTold

\* Every step keeps the invariant.
LEMMA RegistryStep == RegistryInv /\ [Next]_vars => RegistryInv'
<1> SUFFICES ASSUME RegistryInv, [Next]_vars PROVE RegistryInv'
    OBVIOUS
<1> USE ServerRegistryAssumption
    DEF RegistryInv, TypeOK, ThreadPoints, OwnerPoints, OwnerKnows, SuspendedIsCurrent, LeavingIsTold,
        ToldIsKnown, Alive, EntriesAreLive, NoThreadIsLost, BufferSizeIsTold, registry, threads, call
<1>1. ASSUME NEW t \in Threads, RunCreates(t) PROVE RegistryInv'
  BY <1>1 DEF RunCreates
<1>2. CASE RunInserts
  BY <1>2 DEF RunInserts
<1>3. CASE RunResumes
  BY <1>3 DEF RunResumes
<1>4. ASSUME NEW t \in Threads, psStop(t) PROVE RegistryInv'
  BY <1>4 DEF psStop
<1>5. ASSUME NEW s \in Sizes, SizeAllowed(s) PROVE RegistryInv'
  BY <1>5 DEF SizeAllowed
<1>6. CASE SizeChanged
  BY <1>6 DEF SizeChanged
<1>7. CASE StopBegin \/ Destroy
  BY <1>7 DEF StopBegin, Destroy
<1>8. ASSUME NEW t \in Threads, StopEach(t) PROVE RegistryInv'
  BY <1>8 DEF StopEach
<1>9. CASE StopClears
  BY <1>9 DEF StopClears
<1>10. CASE StopWaited
  BY <1>10 DEF StopWaited
<1>11. ASSUME NEW t \in Threads, Starts(t) PROVE RegistryInv'
  BY <1>11 DEF Starts, ThreadTo
<1>12. ASSUME NEW t \in Threads, Leaves(t) PROVE RegistryInv'
  BY <1>12 DEF Leaves, ThreadTo
<1>13. ASSUME NEW t \in Threads, Cleans(t) PROVE RegistryInv'
  BY <1>13 DEF Cleans, ThreadTo
<1>14. ASSUME NEW t \in Threads, Erases(t) PROVE RegistryInv'
  BY <1>14 DEF Erases, ThreadTo
<1>15. ASSUME NEW t \in Threads, Deletes(t) PROVE RegistryInv'
  BY <1>15 DEF Deletes, ThreadTo
<1>16. CASE UNCHANGED vars
  BY <1>16 DEF vars
<1> QED
  BY <1>1, <1>2, <1>3, <1>4, <1>5, <1>6, <1>7, <1>8, <1>9, <1>10, <1>11, <1>12, <1>13, <1>14, <1>15, <1>16
     DEF Next, Calls, Continues, ServerThread, Terminated

\* The invariant of the registry, in every reachable state.
LEMMA RegistryInvHolds == Spec => []RegistryInv
  BY InitHasRegistryInv, RegistryStep, PTL DEF Spec

-----------------------------------------------------------------------------

\* Type correctness.
THEOREM RegistryTypeCorrect == Spec => []TypeOK
  BY RegistryInvHolds, PTL DEF RegistryInv

\* Neither psStop nor psStopOverall meets an entry whose context is gone.
THEOREM EntriesStayLive == Spec => []EntriesAreLive
  BY RegistryInvHolds, PTL DEF RegistryInv

\* Only psStop lets a thread go that nobody waits for.
THEOREM OnlyPsStopLosesThreads == Spec => []NoThreadIsLost
  BY RegistryInvHolds, PTL DEF RegistryInv

\* psSetOutputBufferSize changes the size under no thread but those psStop stopped.
THEOREM BufferSizesAreTold == Spec => []BufferSizeIsTold
  BY RegistryInvHolds, PTL DEF RegistryInv

\* The destructor returns when no thread runs but those psStop stopped.
THEOREM DestructorWaits == Spec => []ManagerOutlivesThreads
<1>1. RegistryInv => ManagerOutlivesThreads
  BY DEF RegistryInv, TypeOK, OwnerKnows, NoThreadIsLost, ManagerOutlivesThreads
<1> QED
  BY <1>1, RegistryInvHolds, PTL

=============================================================================
