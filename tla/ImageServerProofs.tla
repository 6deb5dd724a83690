------------------------- MODULE ImageServerProofs -------------------------
(***************************************************************************)
(* Safety of the image server, for any number of instances and of detached *)
(* threads, whether or not the directory ever ends. The Server uses the    *)
(* manager's own actions, so that what PipeServerThreadProofs proves holds *)
(* here. OwnInv adds to the type invariant who owns a translation's        *)
(* std::thread: the entry of pool is joined by whoever is about to erase   *)
(* it, and only the holder of mtx inserts one. SessionInv adds what an     *)
(* entry of pool and a running translation have to do with the client of   *)
(* their instance: its commands come in turn, the one that is read next    *)
(* fits the entry, and a translation outlives its client only while a      *)
(* detached thread is at work on it. A directory that does not end has no  *)
(* detached threads (Alone), and with ServiceInv the Server then           *)
(* implements ImageService.                                                *)
(***************************************************************************)
EXTENDS ImageServer, PipeServerThreadProofs, SequenceTheorems

\* What the steps of ImageServer are for the server threads' specification.
LEMMA ReturnRefines ==
    ASSUME NEW t \in Threads, Return(t)
    PROVE  [PSTNext]_pstVars
<1>1. CASE t \in Pipes
  BY <1>1 DEF Return, PSTNext, Callbacks
<1>2. CASE t \notin Pipes
  BY <1>2 DEF Return
<1> QED BY <1>1, <1>2

\* ... a cleanup changes the manager's variables only when its callback returns,
LEMMA CleanupRefines ==
    ASSUME NEW t \in Threads, Cleanup(t)
    PROVE  [PSTNext]_pstVars
<1>1. CASE OnDisconnectLookup(t)
  BY <1>1, ReturnRefines DEF OnDisconnectLookup, LookupSession
<1>2. CASE PoolFind(t) \/ PoolErase(t)
  BY <1>2, ReturnRefines DEF PoolFind, PoolErase
<1>3. CASE PoolJoin(t) \/ PoolDangling(t)
  BY <1>3 DEF PoolJoin, PoolDangling, Crash
<1> QED BY <1>1, <1>2, <1>3 DEF Cleanup

\* ... and so every step of the Server is one the manager's specification allows.
LEMMA StepRefines == TypeOK /\ [Next]_vars => [PSTNext]_pstVars
<1> SUFFICES ASSUME TypeOK, [Next]_vars PROVE [PSTNext]_pstVars
    OBVIOUS
<1>1. ASSUME NEW h \in Pipes, Server(h) PROVE [PSTNext]_pstVars
  <2>1. CASE ThreadStep(h)
    BY <2>1 DEF ThreadStep, PSTNext, ServerThread
  <2>2. CASE Dispatch(h) \/ ThreadDisconnects(h)
    BY <2>2 DEF Dispatch, ThreadDisconnects, PSTNext, ServerThread
  <2>3. CASE HandleRefused(h) \/ HandleEmplace(h)
    BY <2>3 DEF HandleRefused, HandleEmplace, PSTNext, Callbacks
  <2>4. CASE HandleChecked(h) \/ HandleSession(h) \/ HandleTerminates(h)
    BY <2>4 DEF HandleChecked, HandleSession, HandleTerminates, Crash
  <2>5. CASE StopHandlerLookup(h)
    BY <2>5, ReturnRefines DEF StopHandlerLookup, LookupSession, Threads
  <2>6. CASE Cleanup(h)
    BY <2>6, CleanupRefines DEF Threads
  <2> QED BY <1>1, <2>1, <2>2, <2>3, <2>4, <2>5, <2>6 DEF Server, Callback
<1>2. ASSUME NEW h \in Pipes, Translate(h) PROVE [PSTNext]_pstVars
  BY <1>2 DEF Translate, TranslateNext, TranslateSend, TranslateCheck, TranslateEnd
<1>3. ASSUME NEW h \in Pipes, Clients(h) PROVE [PSTNext]_pstVars
  <2>1. ASSUME NEW m \in Msgs, ClientWrite(h, m), UNCHANGED threadVars PROVE PSTNext
    BY <2>1 DEF PSTNext, Client
  <2>2. CASE ClientAsks(h)
    <3>1. (IF asked[h] = START THEN BREAK ELSE START) \in Msgs
      BY ImageServerAssumption
    <3> QED BY <2>1, <2>2, <3>1 DEF ClientAsks
  <2>3. CASE ClientConnects(h) \/ ClientDisconnects(h)
    BY <2>3 DEF ClientConnects, ClientDisconnects, PSTNext, Client
  <2> QED BY <1>3, <2>2, <2>3 DEF Clients
<1>4. ASSUME NEW d \in Disconnectors, Detached(d) PROVE [PSTNext]_pstVars
  <2>1. CASE DetachedDisconnects(d)
    <3>1. target[d] \in Pipes
      BY <2>1 DEF DetachedDisconnects, TypeOK, OwnerTypeOK
    <3> QED BY <2>1, <3>1 DEF DetachedDisconnects, PSTNext
  <2>2. CASE Cleanup(d)
    BY <2>2, CleanupRefines DEF Threads
  <2> QED BY <1>4, <2>1, <2>2 DEF Detached
<1>5. CASE PoolRace \/ (\E h \in Pipes : TranslateThrows(h))
  BY <1>5 DEF PoolRace, TranslateThrows, Crash
<1>6. CASE Stop
  BY <1>6 DEF Stop, StopStore, StopFlags, StopThreads, PSTNext
<1>7. CASE UNCHANGED vars
  BY <1>7 DEF vars
<1> QED BY <1>1, <1>2, <1>3, <1>4, <1>5, <1>6, <1>7 DEF Next, Terminated

-----------------------------------------------------------------------------

\* The initial state has its type.
LEMMA InitHasType == Init => TypeOK
<1> SUFFICES ASSUME Init PROVE TypeOK
    OBVIOUS
<1>1. PSTTypeOK
  BY InitHasPSTInv DEF Init, PSTInv
<1>2. OwnerTypeOK
  BY ImageServerAssumption, PipeServerThreadAssumption
     DEF Init, OwnerTypeOK, Threads, ServerPoints, DetachedPoints, CleanupPoints
<1> QED BY <1>1, <1>2 DEF TypeOK

\* The thread t is inside a callback: it works for an instance.
LEMMA InstanceOfBusy ==
    ASSUME OwnerTypeOK, NEW t \in Threads, op[t] # "idle"
    PROVE  InstanceOf(t) \in Pipes
  BY DEF OwnerTypeOK, InstanceOf, Threads

\* When a callback returns, a detached thread has no instance any more.
LEMMA ReturnType ==
    ASSUME OwnerTypeOK, NEW t \in Threads, Return(t)
    PROVE  /\ target' \in [Disconnectors -> Pipes \cup {NoPipe}]
           /\ dstale' \in [Disconnectors -> BOOLEAN]
           /\ \A d \in Disconnectors : target'[d] = IF d = t THEN NoPipe ELSE target[d]
<1>1. CASE t \in Pipes
  <2>1. \A d \in Disconnectors : d # t
    BY <1>1, ImageServerAssumption
  <2> QED BY <1>1, <2>1 DEF Return, OwnerTypeOK
<1>2. CASE t \notin Pipes
  BY <1>2 DEF Return, OwnerTypeOK
<1> QED BY <1>1, <1>2

\* ... and if that is all that happens, nothing else changes.
LEMMA ReturnIdle ==
    ASSUME OwnerTypeOK, NEW t \in Threads, Return(t), OpTo(t, "idle"),
           UNCHANGED <<pool, tpc, mainAt, crash, asked, sent, tstale>>,
           streamMap' \in [Pipes -> {"none", "stream", "stopped"}]
    PROVE  OwnerTypeOK'
<1>1. /\ target' \in [Disconnectors -> Pipes \cup {NoPipe}]
      /\ dstale' \in [Disconnectors -> BOOLEAN]
      /\ \A d \in Disconnectors : target'[d] = IF d = t THEN NoPipe ELSE target[d]
  BY ReturnType
<1>2. /\ op' \in [Threads -> ServerPoints \cup DetachedPoints]
      /\ \A u \in Threads : op'[u] = IF u = t THEN "idle" ELSE op[u]
  BY DEF OpTo, OwnerTypeOK, ServerPoints
<1>3. /\ \A h \in Pipes : op'[h] \in ServerPoints
      /\ \A d \in Disconnectors : op'[d] \in DetachedPoints
      /\ \A d \in Disconnectors : target'[d] = NoPipe <=> op'[d] = "idle"
  BY <1>1, <1>2 DEF OwnerTypeOK, ServerPoints, DetachedPoints, Threads
<1> QED BY <1>1, <1>2, <1>3 DEF OwnerTypeOK

\* A cleanup keeps the types, whoever does it.
LEMMA CleanupType ==
    ASSUME OwnerTypeOK, NEW t \in Threads,
           Cleanup(t) \/ (t \in Pipes /\ StopHandlerLookup(t))
    PROVE  OwnerTypeOK'
<1> USE ImageServerAssumption
        DEF OwnerTypeOK, Threads, ServerPoints, DetachedPoints, CleanupPoints, OpTo, clientVars, dataVars
<1>1. CASE OnDisconnectLookup(t)
  <2>1. InstanceOf(t) \in Pipes
    BY <1>1, InstanceOfBusy DEF OnDisconnectLookup, LookupSession
  <2>2. CASE streamMap[InstanceOf(t)] # "none"
    BY <1>1, <2>1, <2>2 DEF OnDisconnectLookup, LookupSession
  <2>3. CASE streamMap[InstanceOf(t)] = "none"
    <3>1. /\ OpTo(t, "idle") /\ Return(t)
          /\ UNCHANGED <<streamMap, pool, tpc, mainAt, crash, asked, sent, tstale>>
      BY <1>1, <2>3 DEF OnDisconnectLookup, LookupSession
    <3>2. streamMap' \in [Pipes -> {"none", "stream", "stopped"}]
      BY <3>1
    <3> QED BY ONLY OwnerTypeOK, t \in Threads, <3>1, <3>2, ReturnIdle
  <2> QED BY <2>2, <2>3
<1>2. CASE t \in Pipes /\ StopHandlerLookup(t)
  <2>1. InstanceOf(t) = t
    BY <1>2 DEF InstanceOf
  <2> QED BY <1>2, <2>1 DEF StopHandlerLookup, LookupSession, Return
<1>3. CASE PoolFind(t)
  <2>1. CASE pool[InstanceOf(t)] # "absent"
    BY <1>3, <2>1 DEF PoolFind
  <2>2. CASE pool[InstanceOf(t)] = "absent"
    BY <1>3, <2>2, ReturnIdle DEF PoolFind
  <2> QED BY <2>1, <2>2
<1>4. CASE PoolJoin(t)
  BY <1>4 DEF PoolJoin
<1>5. CASE PoolErase(t)
  <2>1. UNCHANGED <<streamMap, tpc, mainAt, crash, asked, sent, tstale>>
    BY <1>5 DEF PoolErase
  <2>2. pool' \in [Pipes -> {"absent", "joinable", "joined"}]
    BY <1>5 DEF PoolErase
  <2>3. /\ op' \in [Threads -> ServerPoints \cup DetachedPoints]
        /\ \A u \in Threads : u # t => op'[u] \in {op[u], "dangling"}
        /\ op'[t] = "idle" /\ op[t] = "erase"
        /\ \A u \in Threads : op'[u] = "dangling" => op[u] # "idle"
    BY <1>5 DEF PoolErase
  <2>4. /\ target' \in [Disconnectors -> Pipes \cup {NoPipe}]
        /\ dstale' \in [Disconnectors -> BOOLEAN]
        /\ \A d \in Disconnectors : target'[d] = IF d = t THEN NoPipe ELSE target[d]
    BY <1>5, ReturnType DEF PoolErase
  <2>5. \A h \in Pipes : op'[h] \in ServerPoints
    BY <2>3
  <2>6. \A d \in Disconnectors : op'[d] \in DetachedPoints /\ (target'[d] = NoPipe <=> op'[d] = "idle")
    BY <2>3, <2>4
  <2> QED BY <2>1, <2>2, <2>3, <2>4, <2>5, <2>6
<1>6. CASE PoolDangling(t)
  BY <1>6 DEF PoolDangling, Crash
<1> QED BY <1>1, <1>2, <1>3, <1>4, <1>5, <1>6 DEF Cleanup

\* So does the bookkeeping for a client that leaves.
LEMMA ClientLeavesType ==
    ASSUME OwnerTypeOK, NEW h \in Pipes, ClientLeaves(h)
    PROVE  /\ asked' \in [Pipes -> Msgs \cup {NoMsg}]
           /\ sent' \in [Pipes -> SUBSET {"IMGDATA"}]
           /\ tstale' \in [Pipes -> BOOLEAN]
           /\ dstale' \in [Disconnectors -> BOOLEAN]
  BY DEF ClientLeaves, OwnerTypeOK, Live

\* Every step keeps the types.
LEMMA TypeOKStep == TypeOK /\ [Next]_vars => TypeOK'
<1> SUFFICES ASSUME TypeOK, [Next]_vars PROVE TypeOK'
    OBVIOUS
<1>0. PSTTypeOK'
  BY StepRefines, TypeStep DEF TypeOK
<1> SUFFICES OwnerTypeOK'
  BY <1>0 DEF TypeOK
<1> USE ImageServerAssumption
        DEF TypeOK, OwnerTypeOK, Threads, ServerPoints, DetachedPoints, CleanupPoints, OpTo,
            clientVars, dataVars
<1>1. ASSUME NEW h \in Pipes, Server(h) PROVE OwnerTypeOK'
  <2>1. CASE ThreadStep(h)
    BY <2>1 DEF ThreadStep, ownerVars
  <2>2. CASE Dispatch(h)
    BY <2>2 DEF Dispatch
  <2>3. CASE ThreadDisconnects(h)
    BY <2>3, ClientLeavesType DEF ThreadDisconnects
  <2>4. CASE HandleRefused(h) \/ HandleChecked(h) \/ HandleSession(h)
    BY <2>4 DEF HandleRefused, HandleChecked, HandleSession
  <2>5. CASE HandleEmplace(h)
    BY <2>5 DEF HandleEmplace
  <2>6. CASE HandleTerminates(h)
    BY <2>6 DEF HandleTerminates, Crash
  <2>7. CASE StopHandlerLookup(h) \/ Cleanup(h)
    BY <2>7, CleanupType
  <2> QED BY <1>1, <2>1, <2>2, <2>3, <2>4, <2>5, <2>6, <2>7 DEF Server, Callback
<1>2. ASSUME NEW h \in Pipes, Translate(h) PROVE OwnerTypeOK'
  <2>1. CASE TranslateNext(h) \/ TranslateCheck(h)
    BY <2>1 DEF TranslateNext, TranslateCheck
  <2>2. CASE TranslateSend(h)
    BY <2>2 DEF TranslateSend
  <2>3. CASE TranslateEnd(h)
    BY <2>3 DEF TranslateEnd
  <2> QED BY <1>2, <2>1, <2>2, <2>3 DEF Translate
<1>3. ASSUME NEW h \in Pipes, Clients(h) PROVE OwnerTypeOK'
  <2>1. CASE ClientConnects(h)
    BY <2>1 DEF ClientConnects, ownerVars
  <2>2. CASE ClientAsks(h)
    BY <2>2 DEF ClientAsks
  <2>3. CASE ClientDisconnects(h)
    BY <2>3, ClientLeavesType DEF ClientDisconnects
  <2> QED BY <1>3, <2>1, <2>2, <2>3 DEF Clients
<1>4. ASSUME NEW d \in Disconnectors, Detached(d) PROVE OwnerTypeOK'
  <2>1. CASE DetachedDisconnects(d)
    BY <2>1, ClientLeavesType DEF DetachedDisconnects
  <2>2. CASE Cleanup(d)
    BY <2>2, CleanupType
  <2> QED BY <1>4, <2>1, <2>2 DEF Detached
<1>5. CASE PoolRace \/ (\E h \in Pipes : TranslateThrows(h))
  BY <1>5 DEF PoolRace, TranslateThrows, Crash
<1>6. CASE Stop
  BY <1>6 DEF Stop, StopStore, StopFlags, StopThreads, ownerVars
<1>7. CASE UNCHANGED vars
  BY <1>7 DEF vars, ownerVars
<1> QED BY <1>1, <1>2, <1>3, <1>4, <1>5, <1>6, <1>7 DEF Next, Terminated

\* Every variable keeps its type, for any instances and detached threads.
THEOREM ImageServerTypeCorrect == Spec => []TypeOK
<1>1. Init => TypeOK
  BY InitHasType
<1>2. TypeOK /\ [Next]_vars => TypeOK'
  BY TypeOKStep
<1> QED BY <1>1, <1>2, PTL DEF Spec

\* What the Server's modules do to the variables of PipeServerThread is one of its
\* steps, by the way the Server's actions are built from it: what is proved of the
\* manager holds here.
LEMMA ImageServerRefinesManager == Spec => PSTSpec
<1>1. Init => PSTInit
  BY DEF Init
<1>2. TypeOK /\ [Next]_vars => [PSTNext]_pstVars
  BY StepRefines
<1> QED BY <1>1, <1>2, ImageServerTypeCorrect, PTL DEF Spec, PSTSpec

\* ... among it, that no server thread spins on a failed read, although detached
\* threads disconnect its pipe at any time, and that stop() touches no context a
\* thread has destroyed.
THEOREM ManagerIsSafeInServer == Spec => [](ReadNeverSpins /\ ContextsOutliveStop)
  BY ImageServerRefinesManager, ReadsNeverSpin, StopIsSafe, PTL

-----------------------------------------------------------------------------

\* A thread about to erase an entry of pool has joined it; a thread that had found
\* the same entry is at "dangling" as soon as the entry is erased.
ErasedIsJoined == \A t \in Threads : op[t] = "erase" => pool[InstanceOf(t)] = "joined"

\* Only the holder of mtx is about to insert into pool.
OneInserts == \A t, u \in Threads : op[t] = "emplace" /\ op[u] = "emplace" => t = u

Owned == LiveTranslationIsOwned /\ ErasedIsJoined /\ OneInserts

OwnInv == TypeOK /\ Owned

\* A step that leaves pool alone, starts no translation and brings no thread to one
\* of the two points disturbs nothing.
LEMMA OwnedFrame ==
    ASSUME TypeOK, Owned, pool' = pool,
           \A h \in Pipes : Live(h)' => Live(h),
           \A t \in Threads : op'[t] = "erase" => op[t] = "erase" /\ InstanceOf(t)' = InstanceOf(t),
           \A t \in Threads : op'[t] = "emplace" => op[t] = "emplace"
    PROVE  Owned'
  BY DEF Owned, LiveTranslationIsOwned, ErasedIsJoined, OneInserts

\* When a callback returns, every other thread keeps its instance.
LEMMA ReturnKeepsInstances ==
    ASSUME TypeOK, NEW t \in Threads, Return(t)
    PROVE  \A u \in Threads : u # t => InstanceOf(u)' = InstanceOf(u)
  BY ReturnType DEF InstanceOf, Threads, TypeOK

\* A cleanup joins before it erases, and so never drops a running translation.
LEMMA CleanupOwned ==
    ASSUME OwnInv, NEW t \in Threads,
           Cleanup(t) \/ (t \in Pipes /\ StopHandlerLookup(t))
    PROVE  Owned'
<1>0. TypeOK /\ Owned /\ op \in [Threads -> ServerPoints \cup DetachedPoints]
  BY DEF OwnInv, TypeOK, OwnerTypeOK
<1>1. ASSUME NEW point, NEW value, LookupSession(t, point, value) PROVE Owned'
  <2>1. CASE streamMap[InstanceOf(t)] # "none"
    BY <1>0, <1>1, <2>1, OwnedFrame DEF LookupSession, OpTo, Live, InstanceOf
  <2>2. CASE streamMap[InstanceOf(t)] = "none"
    <3>1. OpTo(t, "idle") /\ Return(t) /\ UNCHANGED <<pool, tpc>>
      BY <1>1, <2>2 DEF LookupSession
    <3> QED BY <1>0, <3>1, OwnedFrame, ReturnKeepsInstances DEF OpTo, Live
  <2> QED BY <2>1, <2>2
<1>2. CASE PoolFind(t)
  <2>1. CASE pool[InstanceOf(t)] # "absent"
    BY <1>0, <1>2, <2>1, OwnedFrame DEF PoolFind, OpTo, Live, InstanceOf, dataVars
  <2>2. CASE pool[InstanceOf(t)] = "absent"
    <3>1. OpTo(t, "idle") /\ Return(t) /\ UNCHANGED <<pool, tpc>>
      BY <1>2, <2>2 DEF PoolFind, dataVars
    <3> QED BY <1>0, <3>1, OwnedFrame, ReturnKeepsInstances DEF OpTo, Live
  <2> QED BY <2>1, <2>2
<1>3. CASE PoolJoin(t)
  <2>1. /\ InstanceOf(t) \in Pipes
        /\ pool' = [pool EXCEPT ![InstanceOf(t)] = "joined"]
        /\ op' = [op EXCEPT ![t] = "erase"]
        /\ UNCHANGED <<tpc, target>>
    BY <1>0, <1>3, InstanceOfBusy DEF PoolJoin, OpTo, TypeOK
  <2>2. ~Live(InstanceOf(t))
    BY <1>0, <1>3, <2>1 DEF PoolJoin, Owned, LiveTranslationIsOwned
  <2>3. LiveTranslationIsOwned'
    BY <1>0, <2>1, <2>2 DEF Owned, LiveTranslationIsOwned, Live
  <2>4. \A u \in Threads : InstanceOf(u)' = InstanceOf(u)
    BY <2>1 DEF InstanceOf
  <2>5. pool \in [Pipes -> {"absent", "joinable", "joined"}]
    BY <1>0 DEF TypeOK, OwnerTypeOK
  <2>6. ErasedIsJoined'
    <3> SUFFICES ASSUME NEW u \in Threads, op'[u] = "erase"
                 PROVE  pool'[InstanceOf(u)] = "joined"
      BY <2>4 DEF ErasedIsJoined
    <3>1. CASE InstanceOf(u) = InstanceOf(t)
      BY <2>1, <2>5, <3>1
    <3>2. CASE InstanceOf(u) # InstanceOf(t)
      BY <1>0, <2>1, <3>2, <2>5 DEF Owned, ErasedIsJoined
    <3> QED BY <3>1, <3>2
  <2>7. OneInserts'
    BY <1>0, <2>1 DEF Owned, OneInserts
  <2> QED BY <2>3, <2>6, <2>7 DEF Owned
<1>4. CASE PoolErase(t)
  <2>1. /\ InstanceOf(t) \in Pipes /\ op[t] = "erase" /\ tpc' = tpc
        /\ pool' = [pool EXCEPT ![InstanceOf(t)] = "absent"]
        /\ op' = [u \in Threads |->
                    IF u = t THEN "idle"
                    ELSE IF op[u] \in {"join", "erase"} /\ InstanceOf(u) = InstanceOf(t)
                         THEN "dangling"
                    ELSE op[u]]
    BY <1>0, <1>4, InstanceOfBusy DEF PoolErase, TypeOK
  <2>2. \A u \in Threads : u # t => InstanceOf(u)' = InstanceOf(u)
    BY <1>0, <1>4, ReturnKeepsInstances DEF PoolErase
  <2>3. pool[InstanceOf(t)] = "joined"
    BY <1>0, <2>1 DEF Owned, ErasedIsJoined
  <2>4. LiveTranslationIsOwned'
    BY <1>0, <2>1, <2>3 DEF Owned, LiveTranslationIsOwned, Live
  <2>5. \A u \in Threads : op'[u] = "erase" =>
              op[u] = "erase" /\ u # t /\ InstanceOf(u) # InstanceOf(t)
    BY <2>1
  <2>6. ErasedIsJoined'
    BY <1>0, <2>1, <2>2, <2>5 DEF Owned, ErasedIsJoined
  <2>7. OneInserts'
    BY <1>0, <2>1 DEF Owned, OneInserts
  <2> QED BY <2>4, <2>6, <2>7 DEF Owned
<1>5. CASE PoolDangling(t)
  BY <1>0, <1>5, OwnedFrame DEF PoolDangling, Crash, Live, InstanceOf, dataVars
<1> QED BY <1>1, <1>2, <1>3, <1>4, <1>5 DEF Cleanup, OnDisconnectLookup, StopHandlerLookup

\* handle inserts under mtx, into an entry that is absent.
LEMMA HandleOwned ==
    ASSUME OwnInv, NEW h \in Pipes,
           HandleRefused(h) \/ HandleChecked(h) \/ HandleSession(h)
           \/ HandleEmplace(h) \/ HandleTerminates(h)
    PROVE  Owned'
<1>0. /\ TypeOK /\ Owned /\ h \in Threads
      /\ op \in [Threads -> ServerPoints \cup DetachedPoints]
      /\ pool \in [Pipes -> {"absent", "joinable", "joined"}]
      /\ tpc \in [Pipes -> {"over", "top", "send", "check"}]
  BY DEF OwnInv, TypeOK, OwnerTypeOK, Threads
<1>1. CASE HandleRefused(h) \/ HandleChecked(h) \/ HandleTerminates(h)
  BY <1>0, <1>1, OwnedFrame
     DEF HandleRefused, HandleChecked, HandleTerminates, Crash, OpTo, Live, InstanceOf, dataVars
<1>2. CASE HandleSession(h)
  <2>1. op' = [op EXCEPT ![h] = "emplace"] /\ UNCHANGED <<pool, tpc, target>>
    BY <1>2 DEF HandleSession, OpTo
  <2>2. \A t \in Threads : op[t] # "emplace"
    BY <1>0, <1>2 DEF HandleSession, mtxFree, Threads, TypeOK, OwnerTypeOK, DetachedPoints, CleanupPoints
  <2>3. OneInserts'
    BY <1>0, <2>1, <2>2 DEF OneInserts
  <2>4. LiveTranslationIsOwned' /\ ErasedIsJoined'
    BY <1>0, <2>1 DEF Owned, LiveTranslationIsOwned, ErasedIsJoined, Live, InstanceOf
  <2> QED BY <2>3, <2>4 DEF Owned
<1>3. CASE HandleEmplace(h)
  <2>1. /\ pool[h] = "absent" /\ UNCHANGED target
        /\ pool' = [pool EXCEPT ![h] = "joinable"]
        /\ tpc' = [tpc EXCEPT ![h] = "top"]
        /\ op' = [op EXCEPT ![h] = "idle"]
    BY <1>3 DEF HandleEmplace, OpTo
  <2>2. LiveTranslationIsOwned'
    BY <1>0, <2>1 DEF Owned, LiveTranslationIsOwned, Live
  <2>3. \A t \in Threads : op'[t] = "erase" => op[t] = "erase" /\ InstanceOf(t) # h
    BY <1>0, <2>1 DEF Owned, ErasedIsJoined
  <2>4. \A t \in Threads : InstanceOf(t)' = InstanceOf(t)
    BY <2>1 DEF InstanceOf
  <2>5. ErasedIsJoined'
    <3> SUFFICES ASSUME NEW t \in Threads, op'[t] = "erase"
                 PROVE  pool'[InstanceOf(t)] = "joined"
      BY <2>4 DEF ErasedIsJoined
    <3>1. op[t] = "erase" /\ InstanceOf(t) # h /\ InstanceOf(t) \in Pipes
      BY <1>0, <2>3, InstanceOfBusy DEF TypeOK
    <3> QED BY <1>0, <2>1, <3>1 DEF Owned, ErasedIsJoined
  <2>6. OneInserts'
    BY <1>0, <2>1 DEF Owned, OneInserts
  <2> QED BY <2>2, <2>5, <2>6 DEF Owned
<1> QED BY <1>1, <1>2, <1>3

\* Every step keeps the ownership of the translations.
LEMMA OwnStep == OwnInv /\ [Next]_vars => OwnInv'
<1> SUFFICES ASSUME OwnInv, [Next]_vars PROVE OwnInv'
    OBVIOUS
<1>0. /\ TypeOK /\ Owned
      /\ op \in [Threads -> ServerPoints \cup DetachedPoints]
      /\ tpc \in [Pipes -> {"over", "top", "send", "check"}]
  BY DEF OwnInv, TypeOK, OwnerTypeOK
<1> SUFFICES Owned'
  BY <1>0, TypeOKStep DEF OwnInv
<1>1. ASSUME NEW h \in Pipes, Server(h) PROVE Owned'
  <2>0. h \in Threads
    BY DEF Threads
  <2>1. CASE ThreadStep(h) \/ Dispatch(h) \/ ThreadDisconnects(h)
    BY <1>0, <2>0, <2>1, OwnedFrame
       DEF ThreadStep, Dispatch, ThreadDisconnects, OpTo, Live, InstanceOf, ownerVars, dataVars
  <2>2. CASE StopHandlerLookup(h) \/ Cleanup(h)
    BY <2>0, <2>2, CleanupOwned
  <2> QED BY <1>1, <2>1, <2>2, HandleOwned DEF Server, Callback
<1>2. ASSUME NEW h \in Pipes, Translate(h) PROVE Owned'
  <2>1. CASE TranslateNext(h) \/ TranslateSend(h) \/ TranslateCheck(h)
    BY <1>0, <2>1, OwnedFrame DEF TranslateNext, TranslateSend, TranslateCheck, Live, InstanceOf
  <2>2. CASE TranslateEnd(h)
    <3>1. PICK d \in Disconnectors :
              op[d] = "idle" /\ OpTo(d, "disc") /\ target' = [target EXCEPT ![d] = h]
      BY <2>2 DEF TranslateEnd
    <3>2. \A t \in Threads : t # d => InstanceOf(t)' = InstanceOf(t)
      BY <1>0, <3>1 DEF InstanceOf, TypeOK, OwnerTypeOK, Threads
    <3>3. pool' = pool /\ \A g \in Pipes : Live(g)' => Live(g)
      BY <1>0, <2>2 DEF TranslateEnd, Live
    <3> QED BY <1>0, <3>1, <3>2, <3>3, OwnedFrame DEF OpTo, Threads
  <2> QED BY <1>2, <2>1, <2>2 DEF Translate
<1>3. ASSUME NEW h \in Pipes, Clients(h) PROVE Owned'
  BY <1>0, <1>3, OwnedFrame
     DEF Clients, ClientConnects, ClientAsks, ClientDisconnects, Live, InstanceOf, ownerVars, dataVars
<1>4. ASSUME NEW d \in Disconnectors, Detached(d) PROVE Owned'
  <2>0. d \in Threads
    BY DEF Threads
  <2>1. CASE DetachedDisconnects(d)
    BY <1>0, <2>0, <2>1, OwnedFrame DEF DetachedDisconnects, OpTo, Live, InstanceOf, dataVars
  <2> QED BY <1>4, <2>0, <2>1, CleanupOwned DEF Detached
<1>5. CASE PoolRace \/ (\E h \in Pipes : TranslateThrows(h))
  BY <1>0, <1>5, OwnedFrame DEF PoolRace, TranslateThrows, Crash, Live, InstanceOf, dataVars
<1>6. CASE Stop
  BY <1>0, <1>6, OwnedFrame
     DEF Stop, StopStore, StopFlags, StopThreads, Live, InstanceOf, ownerVars, dataVars
<1>7. CASE UNCHANGED vars
  BY <1>0, <1>7, OwnedFrame DEF vars, Live, InstanceOf, ownerVars, dataVars
<1> QED BY <1>1, <1>2, <1>3, <1>4, <1>5, <1>6, <1>7 DEF Next, Terminated

\* The ownership of the translations, in every reachable state.
LEMMA OwnInvHolds == Spec => []OwnInv
<1>1. Init => OwnInv
  BY InitHasType DEF Init, OwnInv, Owned, LiveTranslationIsOwned, ErasedIsJoined, OneInserts,
                     Live, Threads
<1> QED BY <1>1, OwnStep, PTL DEF Spec

\* While a translation thread runs its std::thread is in pool and not joined,
\* whichever of the server's threads, the detached threads and stop() clean up.
THEOREM TranslationsAreOwned == Spec => []LiveTranslationIsOwned
<1>1. OwnInv => LiveTranslationIsOwned
  BY DEF OwnInv, Owned
<1> QED BY <1>1, OwnInvHolds, PTL

-----------------------------------------------------------------------------
(* Sessions: what pool, streamMap and the commands of a client have to do with    *)
(* each other, while detached threads may take Session and std::thread away.      *)

\* The points between two clients, and those of a cleanup that works on pool.
Waiting == {"loop", "connect", "waitConn", "resetEvt", "exit", "close", "gone"}
Works == {"find", "join", "erase"}

\* A detached thread is about to erase the entry of h, or has found none.
Helped(h) == \E d \in Disconnectors : target[d] = h /\ op[d] \in Works

\* The server thread is in a callback when the manager is, for the message it read.
PcAgrees(h) ==
    /\ op[h] = "idle" <=> pc[h] \notin {"handler", "onDisconnect"}
    /\ op[h] \in {"start", "startLock", "emplace"} => pc[h] = "handler" /\ cmd[h] = START
    /\ op[h] = "brk" => pc[h] = "handler"
    /\ op[h] = "lost" => pc[h] = "onDisconnect"
    /\ pc[h] = "handler" /\ op[h] \in Works \cup {"brk", "dangling"} => cmd[h] = BREAK

\* An entry of pool has a Session, or somebody is about to erase it.
MapAgrees(h) ==
    /\ op[h] = "emplace" => streamMap[h] # "none"
    /\ pool[h] # "absent" => streamMap[h] # "none" \/ op[h] \in Works \/ Helped(h)
    /\ pc[h] \in Waiting \/ (pc[h] = "onDisconnect" /\ op[h] # "lost") => streamMap[h] = "none"

\* An entry of pool is of a client whose next message is not CMD_START.
PoolAgrees(h) ==
    pool[h] # "absent" =>
        \/ Helped(h)
        \/ pc[h] \in {"disconnect", "onDisconnect"}
        \/ pc[h] = "handler" /\ cmd[h] = BREAK
        \/ pc[h] \in {"read", "waitRead"} /\ (inbox[h] = <<>> \/ inbox[h][1] = BREAK)

\* The commands of a client come in turn.
InboxAgrees(h) ==
    /\ \A i \in 1 .. Len(inbox[h]) - 1 : inbox[h][i] # inbox[h][i + 1]
    /\ inbox[h] # <<>> => pipe[h] \in {"connected", "closing"}
    /\ pc[h] = "handler" /\ inbox[h] # <<>> => inbox[h][1] # cmd[h]

\* What a client asked for last is still to be read, or was read last.
AskedAgrees(h) ==
    /\ asked[h] # NoMsg => pipe[h] \in {"connected", "closed"}
    /\ pipe[h] = "connected" =>
          /\ inbox[h] # <<>> => asked[h] = inbox[h][Len(inbox[h])]
          /\ inbox[h] = <<>> /\ pc[h] = "handler" => asked[h] = cmd[h]
          /\ inbox[h] = <<>> /\ pc[h] \in {"read", "waitRead", "disconnect"} /\ pool[h] # "absent"
                => asked[h] = START \/ Helped(h)

\* A translation started for another client than the one that is there is being joined.
ClientAgrees(h) ==
    /\ pc[h] = "onDisconnect" => pipe[h] = "disconnected"
    /\ Live(h) /\ tstale[h] /\ pipe[h] = "connected" => Helped(h)

SessionAgrees(h) ==
    /\ PcAgrees(h) /\ MapAgrees(h) /\ PoolAgrees(h)
    /\ InboxAgrees(h) /\ AskedAgrees(h) /\ ClientAgrees(h)

SessionInv == OwnInv /\ PSTInv /\ \A h \in Pipes : SessionAgrees(h)

-----------------------------------------------------------------------------

\* Everything SessionAgrees says of g is as it was.
Same(g) ==
    /\ pc'[g] = pc[g] /\ cmd'[g] = cmd[g] /\ pipe'[g] = pipe[g] /\ inbox'[g] = inbox[g]
    /\ streamMap'[g] = streamMap[g] /\ pool'[g] = pool[g] /\ tpc'[g] = tpc[g]
    /\ op'[g] = op[g] /\ asked'[g] = asked[g] /\ tstale'[g] = tstale[g]

\* An instance nothing of which changes, while its helpers stay, still agrees.
LEMMA SameAgrees ==
    ASSUME NEW g \in Pipes, SessionAgrees(g), Same(g), Helped(g) => Helped(g)'
    PROVE  SessionAgrees(g)'
<1>1. PcAgrees(g)'
  BY DEF SessionAgrees, Same, PcAgrees
<1>2. MapAgrees(g)'
  BY DEF SessionAgrees, Same, MapAgrees
<1>3. PoolAgrees(g)'
  BY DEF SessionAgrees, Same, PoolAgrees
<1>4. InboxAgrees(g)'
  BY DEF SessionAgrees, Same, InboxAgrees
<1>5. AskedAgrees(g)'
  BY DEF SessionAgrees, Same, AskedAgrees
<1>6. ClientAgrees(g)'
  BY DEF SessionAgrees, Same, ClientAgrees, Live
<1> QED BY <1>1, <1>2, <1>3, <1>4, <1>5, <1>6 DEF SessionAgrees

\* The types the steps below need.
LEMMA SessionTypes ==
    ASSUME SessionInv
    PROVE  /\ pc \in [Pipes -> Points] /\ cmd \in [Pipes -> Msgs \cup {NoMsg}]
           /\ pipe \in [Pipes -> PipeStates] /\ inbox \in [Pipes -> Seq(Msgs)]
           /\ streamMap \in [Pipes -> {"none", "stream", "stopped"}]
           /\ pool \in [Pipes -> {"absent", "joinable", "joined"}]
           /\ tpc \in [Pipes -> {"over", "top", "send", "check"}]
           /\ op \in [Threads -> ServerPoints \cup DetachedPoints]
           /\ target \in [Disconnectors -> Pipes \cup {NoPipe}]
           /\ asked \in [Pipes -> Msgs \cup {NoMsg}] /\ tstale \in [Pipes -> BOOLEAN]
           /\ NoMsg \notin Msgs /\ Msgs = {START, BREAK} /\ START # BREAK
           /\ Pipes \subseteq Threads /\ Disconnectors \subseteq Threads
           /\ Pipes \cap Disconnectors = {} /\ NoPipe \notin Pipes
BY PipeServerThreadAssumption, ImageServerAssumption
   DEF SessionInv, OwnInv, TypeOK, PSTTypeOK, NamedPipeTypeOK, OwnerTypeOK, Threads

\* The detached threads are where they were.
LEMMA HelpedKept ==
    ASSUME NEW g \in Pipes, target' = target, \A d \in Disconnectors : op'[d] = op[d]
    PROVE  Helped(g)' = Helped(g)
BY DEF Helped

\* An entry of pool without a detached thread at work is the server thread's.
LEMMA WaitingIsClean ==
    ASSUME SessionInv, NEW h \in Pipes, pc[h] \in Waiting
    PROVE  /\ op[h] = "idle" /\ streamMap[h] = "none"
           /\ pool[h] # "absent" => Helped(h)
           /\ Live(h) => Helped(h)
<1>1. op[h] = "idle" /\ streamMap[h] = "none"
  BY DEF SessionInv, SessionAgrees, PcAgrees, MapAgrees, Waiting
<1>2. pool[h] # "absent" => Helped(h)
  BY DEF SessionInv, SessionAgrees, PoolAgrees, Waiting
<1>3. Live(h) => pool[h] # "absent"
  BY DEF SessionInv, OwnInv, Owned, LiveTranslationIsOwned
<1> QED BY <1>1, <1>2, <1>3

\* A translation that runs has its entry.
LEMMA LiveHasEntry ==
    ASSUME SessionInv, NEW h \in Pipes, pool[h] = "absent"
    PROVE  ~Live(h)
BY DEF SessionInv, OwnInv, Owned, LiveTranslationIsOwned

-----------------------------------------------------------------------------
(* Steps of the server thread outside of the callbacks *)

\* Between two clients an entry of pool is a detached thread's business.
LEMMA WaitingStepAgrees ==
    ASSUME SessionInv, NEW h \in Pipes, pc[h] \in Waiting, pc'[h] \in Waiting \cup {"read"},
           cmd'[h] = cmd[h],
           \/ pipe'[h] = pipe[h] /\ inbox'[h] = inbox[h]
           \/ pipe'[h] = "closed" /\ inbox'[h] = <<>>
           \/ /\ pipe[h] \in {"created", "listening", "disconnected"}
              /\ pipe'[h] = "listening" /\ inbox'[h] = inbox[h],
           UNCHANGED ownerVars
    PROVE  SessionAgrees(h)'
<1>1. /\ op[h] = "idle" /\ streamMap[h] = "none"
      /\ pool[h] # "absent" => Helped(h)
      /\ Live(h) => Helped(h)
  BY WaitingIsClean
<1>2. /\ op' = op /\ streamMap' = streamMap /\ pool' = pool /\ tpc' = tpc /\ target' = target
      /\ asked' = asked /\ tstale' = tstale /\ Helped(h)' = Helped(h) /\ Live(h)' = Live(h)
  BY HelpedKept DEF ownerVars, dataVars, clientVars, Live
<1>3. InboxAgrees(h) /\ AskedAgrees(h) /\ pc'[h] \notin {"handler", "onDisconnect", "disconnect"}
  BY DEF SessionInv, SessionAgrees, Waiting
<1>4. inbox'[h] = inbox[h] \/ inbox'[h] = <<>>
  OBVIOUS
<1>5. pipe'[h] = "listening" => inbox'[h] = inbox[h] /\ (inbox[h] = <<>> \/ pipe'[h] = pipe[h])
  BY <1>3 DEF InboxAgrees
<1>6. PcAgrees(h)'
  BY <1>1, <1>2, <1>3 DEF PcAgrees, Works
<1>7. MapAgrees(h)'
  BY <1>1, <1>2 DEF MapAgrees
<1>8. PoolAgrees(h)'
  BY <1>1, <1>2 DEF PoolAgrees
<1>9. InboxAgrees(h)'
  <2>1. \A i \in 1 .. Len(inbox'[h]) - 1 : inbox'[h][i] # inbox'[h][i + 1]
    BY <1>3, <1>4 DEF InboxAgrees
  <2>2. inbox'[h] # <<>> => pipe'[h] \in {"connected", "closing"}
    BY <1>3 DEF InboxAgrees
  <2> QED BY <1>3, <2>1, <2>2 DEF InboxAgrees
<1>10. AskedAgrees(h)'
  <2>1. asked[h] # NoMsg => pipe'[h] \in {"connected", "closed"}
    BY <1>3 DEF AskedAgrees
  <2>2. pipe'[h] = "connected" => pipe[h] = "connected" /\ inbox'[h] = inbox[h]
    OBVIOUS
  <2>3. pool[h] # "absent" => Helped(h)
    BY <1>1
  <2> QED BY <1>2, <1>3, <2>1, <2>2, <2>3 DEF AskedAgrees
<1>11. ClientAgrees(h)'
  BY <1>1, <1>2, <1>3 DEF ClientAgrees
<1> QED BY <1>6, <1>7, <1>8, <1>9, <1>10, <1>11 DEF SessionAgrees

\* While a client is served, reading changes nothing in what was asked.
LEMMA ReadingStepAgrees ==
    ASSUME SessionInv, NEW h \in Pipes, pc[h] \in {"read", "waitRead"},
           pc'[h] \in {"read", "waitRead", "disconnect"},
           cmd'[h] = cmd[h], pipe'[h] = pipe[h], inbox'[h] = inbox[h],
           UNCHANGED ownerVars
    PROVE  SessionAgrees(h)'
<1>1. SessionAgrees(h)
  BY DEF SessionInv
<1>2. /\ op' = op /\ streamMap' = streamMap /\ pool' = pool /\ tpc' = tpc /\ target' = target
      /\ asked' = asked /\ tstale' = tstale /\ Helped(h)' = Helped(h) /\ Live(h)' = Live(h)
  BY HelpedKept DEF ownerVars, dataVars, clientVars, Live
<1>3. op[h] = "idle"
  BY <1>1 DEF SessionAgrees, PcAgrees
<1>4. PcAgrees(h)'
  BY <1>2, <1>3 DEF PcAgrees, Works
<1>5. MapAgrees(h)'
  BY <1>1, <1>2, <1>3 DEF SessionAgrees, MapAgrees, Waiting
<1>6. PoolAgrees(h)'
  BY <1>1, <1>2 DEF SessionAgrees, PoolAgrees
<1>7. InboxAgrees(h)'
  BY <1>1, <1>2 DEF SessionAgrees, InboxAgrees
<1>8. AskedAgrees(h)'
  BY <1>1, <1>2 DEF SessionAgrees, AskedAgrees
<1>9. ClientAgrees(h)'
  BY <1>1, <1>2 DEF SessionAgrees, ClientAgrees
<1> QED BY <1>4, <1>5, <1>6, <1>7, <1>8, <1>9 DEF SessionAgrees

\* The server thread outside of the callbacks.
LEMMA ThreadStepAgrees ==
    ASSUME SessionInv, NEW h \in Pipes, ThreadStep(h)
    PROVE  \A g \in Pipes : SessionAgrees(g)'
<1>0. /\ pc \in [Pipes -> Points] /\ cmd \in [Pipes -> Msgs \cup {NoMsg}]
      /\ pipe \in [Pipes -> PipeStates] /\ inbox \in [Pipes -> Seq(Msgs)]
  BY SessionTypes
<1>1. UNCHANGED ownerVars
  BY DEF ThreadStep
<1>2. /\ cmd' = cmd
      /\ \A g \in Pipes \ {h} : pc'[g] = pc[g] /\ pipe'[g] = pipe[g] /\ inbox'[g] = inbox[g]
  BY <1>0 DEF ThreadStep, LoopTest, ConnectPending, ConnectAlready, ConnectNoData, ConnectDone,
              ConnectTimeout, ResetAfterTimeout, ReadIssue, ReadRefused, ReadError, StopObserved,
              LeavePool, CloseContext, Go, Listen, pipeVars
<1>3. ASSUME NEW g \in Pipes, g # h PROVE SessionAgrees(g)'
  <2>1. Same(g) /\ Helped(g)' = Helped(g)
    BY <1>1, <1>2, <1>3, HelpedKept DEF Same, ownerVars, dataVars, clientVars
  <2> QED BY <2>1, SameAgrees DEF SessionInv
<1>4. SessionAgrees(h)'
  <2>1. CASE LoopTest(h) \/ ConnectAlready(h) \/ ConnectNoData(h) \/ ConnectDone(h)
             \/ ConnectTimeout(h) \/ ResetAfterTimeout(h) \/ LeavePool(h)
    <3>1. /\ pc[h] \in Waiting /\ pc'[h] \in Waiting \cup {"read"}
          /\ pipe'[h] = pipe[h] /\ inbox'[h] = inbox[h]
      BY <1>0, <2>1 DEF LoopTest, ConnectAlready, ConnectNoData, ConnectDone, ConnectTimeout,
                        ResetAfterTimeout, LeavePool, Go, Waiting, pipeVars
    <3> QED BY <1>1, <1>2, <3>1, WaitingStepAgrees
  <2>2. CASE ConnectPending(h)
    <3>1. /\ pc[h] \in Waiting /\ pc'[h] \in Waiting
          /\ pipe[h] \in {"created", "listening", "disconnected"}
          /\ pipe'[h] = "listening" /\ inbox'[h] = inbox[h]
      BY <1>0, <2>2 DEF ConnectPending, Listen, Go, Waiting
    <3> QED BY <1>1, <1>2, <3>1, WaitingStepAgrees
  <2>3. CASE CloseContext(h)
    <3>1. /\ pc[h] \in Waiting /\ pc'[h] \in Waiting
          /\ pipe'[h] = "closed" /\ inbox'[h] = <<>>
      BY <1>0, <2>3 DEF CloseContext, Go, Waiting
    <3> QED BY <1>1, <1>2, <3>1, WaitingStepAgrees
  <2>4. CASE ReadIssue(h) \/ ReadRefused(h) \/ ReadError(h) \/ StopObserved(h)
    <3>1. /\ pc[h] \in {"read", "waitRead"} /\ pc'[h] \in {"read", "waitRead", "disconnect"}
          /\ pipe'[h] = pipe[h] /\ inbox'[h] = inbox[h]
      BY <1>0, <2>4 DEF ReadIssue, ReadRefused, ReadError, StopObserved, Go, pipeVars
    <3> QED BY <1>1, <1>2, <3>1, ReadingStepAgrees
  <2> QED BY <2>1, <2>2, <2>3, <2>4 DEF ThreadStep
<1> QED BY <1>3, <1>4

\* A message is read: what follows it in the inbox is the other command.
LEMMA DispatchAgrees ==
    ASSUME SessionInv, NEW h \in Pipes, Dispatch(h)
    PROVE  \A g \in Pipes : SessionAgrees(g)'
<1>0. /\ pc \in [Pipes -> Points] /\ cmd \in [Pipes -> Msgs \cup {NoMsg}]
      /\ inbox \in [Pipes -> Seq(Msgs)] /\ op \in [Threads -> ServerPoints \cup DetachedPoints]
      /\ Msgs = {START, BREAK} /\ START # BREAK /\ h \in Threads
      /\ \A d \in Disconnectors : d # h
  BY SessionTypes
<1>1. /\ pc[h] = "waitRead" /\ Readable(h)
      /\ cmd' = [cmd EXCEPT ![h] = Head(inbox[h])]
      /\ inbox' = [inbox EXCEPT ![h] = Tail(@)]
      /\ pc' = [pc EXCEPT ![h] = "handler"] /\ pipe' = pipe
      /\ op' = [op EXCEPT ![h] = IF Head(inbox[h]) = START THEN "start" ELSE "brk"]
      /\ streamMap' = streamMap /\ pool' = pool /\ tpc' = tpc /\ target' = target
      /\ asked' = asked /\ tstale' = tstale
  BY DEF Dispatch, ReadMessage, Go, OpTo, dataVars, clientVars
<1>2. \A g \in Pipes : Helped(g)' = Helped(g)
  BY <1>0, <1>1, HelpedKept
<1>3. ASSUME NEW g \in Pipes, g # h PROVE SessionAgrees(g)'
  BY <1>0, <1>1, <1>2, <1>3, SameAgrees DEF Same, SessionInv
<1>s. PICK s \in Seq(Msgs) : s = inbox[h]
  BY <1>0
<1>t. PICK t : t = Tail(s)
  OBVIOUS
<1>4. /\ s # <<>> /\ t \in Seq(Msgs) /\ Len(t) = Len(s) - 1 /\ Len(s) \in Nat
      /\ \A i \in 1 .. Len(t) : t[i] = s[i + 1]
      /\ s[1] \in Msgs /\ Head(s) = s[1]
  <2>1. s # <<>>
    BY <1>1, <1>s DEF Readable
  <2>2. /\ t \in Seq(Msgs) /\ Len(t) = Len(s) - 1
        /\ \A i \in 1 .. Len(t) : t[i] = s[i + 1]
    BY <2>1, <1>t, HeadTailProperties
  <2>3. Len(s) \in Nat /\ 1 \in 1 .. Len(s)
    BY <2>1
  <2> QED BY <2>1, <2>2, <2>3
<1>5. /\ pc'[h] = "handler" /\ cmd'[h] = s[1] /\ inbox'[h] = t /\ pipe'[h] = pipe[h]
      /\ op'[h] = IF s[1] = START THEN "start" ELSE "brk"
      /\ Live(h)' = Live(h)
  BY <1>0, <1>1, <1>4, <1>s, <1>t DEF Live
<1>6. PcAgrees(h) /\ MapAgrees(h) /\ PoolAgrees(h) /\ InboxAgrees(h) /\ AskedAgrees(h) /\ ClientAgrees(h)
  BY DEF SessionInv, SessionAgrees
<1>7. op[h] = "idle"
  BY <1>1, <1>6 DEF PcAgrees
<1>8. PcAgrees(h)'
  BY <1>0, <1>4, <1>5 DEF PcAgrees, Works
<1>9. MapAgrees(h)'
  BY <1>1, <1>2, <1>5, <1>6, <1>7 DEF MapAgrees, Works, Waiting
<1>10. PoolAgrees(h)'
  BY <1>1, <1>2, <1>4, <1>5, <1>6, <1>s DEF PoolAgrees
<1>11. \A i \in 1 .. Len(s) - 1 : s[i] # s[i + 1]
  BY <1>6, <1>s DEF InboxAgrees
<1>12. t # <<>> => /\ Len(t) >= 1 /\ t[1] = s[2] /\ s[1] # s[2] /\ Len(s) >= 2
                   /\ t[Len(t)] = s[Len(s)]
  <2>1. ASSUME t # <<>> PROVE Len(t) >= 1 /\ Len(s) >= 2
    BY <1>4, <2>1
  <2>2. ASSUME t # <<>> PROVE t[1] = s[2] /\ s[1] # s[2] /\ t[Len(t)] = s[Len(s)]
    <3>1. 1 \in 1 .. Len(t) /\ Len(t) \in 1 .. Len(t) /\ 1 \in 1 .. Len(s) - 1
          /\ Len(t) + 1 = Len(s)
      BY <1>4, <2>1, <2>2
    <3> QED BY <1>4, <1>11, <3>1
  <2> QED BY <2>1, <2>2
<1>13. InboxAgrees(h)'
  <2>1. \A i \in 1 .. Len(t) - 1 : t[i] # t[i + 1]
    <3>1. ASSUME NEW i \in 1 .. Len(t) - 1 PROVE t[i] # t[i + 1]
      <4>1. /\ i \in 1 .. Len(t) /\ i + 1 \in 1 .. Len(t) /\ i + 1 \in 1 .. Len(s) - 1
        BY <1>4, <3>1
      <4> QED BY <1>4, <1>11, <4>1
    <3> QED BY <3>1
  <2>2. pipe[h] \in {"connected", "closing"}
    BY <1>1 DEF Readable
  <2> QED BY <1>5, <1>12, <2>1, <2>2 DEF InboxAgrees
<1>14. AskedAgrees(h)'
  <2>1. asked'[h] = asked[h] /\ (asked[h] # NoMsg => pipe'[h] \in {"connected", "closed"})
    BY <1>1, <1>5, <1>6 DEF AskedAgrees
  <2>2. ASSUME pipe[h] = "connected" PROVE asked[h] = s[Len(s)]
    BY <1>4, <1>6, <1>s, <2>2 DEF AskedAgrees
  <2>3. t = <<>> => Len(s) = 1
    BY <1>4
  <2> QED BY <1>5, <1>12, <2>1, <2>2, <2>3 DEF AskedAgrees
<1>15. ClientAgrees(h)'
  BY <1>1, <1>2, <1>5, <1>6 DEF ClientAgrees
<1>16. SessionAgrees(h)'
  BY <1>8, <1>9, <1>10, <1>13, <1>14, <1>15 DEF SessionAgrees
<1> QED BY <1>3, <1>16

-----------------------------------------------------------------------------
(* handle, and the end of a callback *)

\* A command is handled, and the thread goes back to reading.
LEMMA HandlerReturnAgrees ==
    ASSUME SessionInv, NEW h \in Pipes, pc[h] = "handler", pc'[h] = "read", op'[h] = "idle",
           pipe'[h] = pipe[h], inbox'[h] = inbox[h], asked'[h] = asked[h],
           pool'[h] # "absent" => /\ streamMap'[h] # "none" \/ Helped(h)'
                                  /\ cmd[h] = START \/ Helped(h)',
           Live(h)' /\ tstale'[h] /\ pipe[h] = "connected" => Helped(h)'
    PROVE  SessionAgrees(h)'
<1>0. /\ inbox[h] \in Seq(Msgs) /\ Msgs = {START, BREAK} /\ START # BREAK
  BY SessionTypes
<1>1. /\ InboxAgrees(h) /\ AskedAgrees(h)
  BY DEF SessionInv, SessionAgrees
<1>2. PcAgrees(h)'
  BY DEF PcAgrees, Works
<1>3. MapAgrees(h)'
  BY DEF MapAgrees, Waiting
<1>s. PICK s \in Seq(Msgs) : s = inbox[h]
  BY <1>0
<1>4. s # <<>> /\ cmd[h] = START => s[1] = BREAK
  <2>1. s # <<>> => s[1] \in Msgs
    OBVIOUS
  <2> QED BY <1>0, <1>1, <1>s, <2>1 DEF InboxAgrees
<1>5. PoolAgrees(h)'
  BY <1>4, <1>s DEF PoolAgrees
<1>6. InboxAgrees(h)'
  BY <1>1 DEF InboxAgrees
<1>7. AskedAgrees(h)'
  BY <1>1 DEF AskedAgrees
<1>8. ClientAgrees(h)'
  BY DEF ClientAgrees
<1> QED BY <1>2, <1>3, <1>5, <1>6, <1>7, <1>8 DEF SessionAgrees

\* The owner has been told of the end of the connection: the thread listens again.
LEMMA LostReturnAgrees ==
    ASSUME SessionInv, NEW h \in Pipes, pc[h] = "onDisconnect", pc'[h] = "loop",
           op'[h] = "idle", pipe'[h] = pipe[h], inbox'[h] = inbox[h], asked'[h] = asked[h],
           streamMap'[h] = "none", pool'[h] # "absent" => Helped(h)'
    PROVE  SessionAgrees(h)'
<1>1. /\ pipe[h] = "disconnected" /\ InboxAgrees(h) /\ AskedAgrees(h)
  BY DEF SessionInv, SessionAgrees, ClientAgrees
<1>2. PcAgrees(h)'
  BY DEF PcAgrees, Works
<1>3. MapAgrees(h)'
  BY DEF MapAgrees
<1>4. PoolAgrees(h)'
  BY DEF PoolAgrees
<1>5. InboxAgrees(h)'
  BY <1>1 DEF InboxAgrees
<1>6. AskedAgrees(h)'
  BY <1>1 DEF AskedAgrees
<1>7. ClientAgrees(h)'
  BY <1>1 DEF ClientAgrees
<1> QED BY <1>2, <1>3, <1>4, <1>5, <1>6, <1>7 DEF SessionAgrees

\* The client is disconnected by the server thread, which then tells the Server.
LEMMA ThreadDisconnectsAgrees ==
    ASSUME SessionInv, NEW h \in Pipes, ThreadDisconnects(h)
    PROVE  \A g \in Pipes : SessionAgrees(g)'
<1>0. /\ pc \in [Pipes -> Points] /\ pipe \in [Pipes -> PipeStates]
      /\ inbox \in [Pipes -> Seq(Msgs)] /\ asked \in [Pipes -> Msgs \cup {NoMsg}]
      /\ op \in [Threads -> ServerPoints \cup DetachedPoints]
      /\ tstale \in [Pipes -> BOOLEAN]
      /\ h \in Threads /\ \A d \in Disconnectors : d # h
  BY SessionTypes
<1>1. /\ pc[h] = "disconnect" /\ DisconnectNamedPipe(h)
      /\ pc' = [pc EXCEPT ![h] = "onDisconnect"] /\ cmd' = cmd
      /\ op' = [op EXCEPT ![h] = "lost"]
      /\ asked' = [asked EXCEPT ![h] = NoMsg]
      /\ tstale' = [tstale EXCEPT ![h] = Live(h)]
      /\ streamMap' = streamMap /\ pool' = pool /\ tpc' = tpc /\ target' = target
  BY DEF ThreadDisconnects, DisconnectPipe, ClientLeaves, Go, OpTo, dataVars
<1>2. pipe[h] # "closed"
  BY <1>1 DEF SessionInv, PSTInv, ServedWhileReading, Served
<1>3. pipe' = [pipe EXCEPT ![h] = "disconnected"] /\ inbox' = [inbox EXCEPT ![h] = <<>>]
  BY <1>1, <1>2 DEF DisconnectNamedPipe
<1>4. \A g \in Pipes : Helped(g)' = Helped(g)
  BY <1>0, <1>1, HelpedKept
<1>5. ASSUME NEW g \in Pipes, g # h PROVE SessionAgrees(g)'
  BY <1>0, <1>1, <1>3, <1>4, <1>5, SameAgrees DEF Same, SessionInv
<1>6. /\ pc'[h] = "onDisconnect" /\ op'[h] = "lost" /\ pipe'[h] = "disconnected"
      /\ inbox'[h] = <<>> /\ asked'[h] = NoMsg
  BY <1>0, <1>1, <1>3
<1>7. op[h] = "idle" /\ MapAgrees(h)
  BY <1>1 DEF SessionInv, SessionAgrees, PcAgrees
<1>8. PcAgrees(h)'
  BY <1>6 DEF PcAgrees, Works
<1>9. MapAgrees(h)'
  BY <1>1, <1>4, <1>6, <1>7 DEF MapAgrees, Works, Waiting
<1>10. PoolAgrees(h)'
  BY <1>6 DEF PoolAgrees
<1>11. InboxAgrees(h)'
  <2>1. Len(inbox'[h]) - 1 = -1 /\ 1 .. -1 = {}
    BY <1>6
  <2> QED BY <1>6, <2>1 DEF InboxAgrees
<1>12. AskedAgrees(h)'
  BY <1>6 DEF AskedAgrees
<1>13. ClientAgrees(h)'
  BY <1>6 DEF ClientAgrees
<1>14. SessionAgrees(h)'
  BY <1>8, <1>9, <1>10, <1>11, <1>12, <1>13 DEF SessionAgrees
<1> QED BY <1>5, <1>14

\* handle: the shutdown check, the Session, the insertion into pool.
LEMMA HandleAgrees ==
    ASSUME SessionInv, NEW h \in Pipes,
           HandleRefused(h) \/ HandleChecked(h) \/ HandleSession(h)
           \/ HandleEmplace(h) \/ HandleTerminates(h)
    PROVE  \A g \in Pipes : SessionAgrees(g)'
<1>0. /\ pc \in [Pipes -> Points] /\ cmd \in [Pipes -> Msgs \cup {NoMsg}]
      /\ op \in [Threads -> ServerPoints \cup DetachedPoints]
      /\ streamMap \in [Pipes -> {"none", "stream", "stopped"}]
      /\ pool \in [Pipes -> {"absent", "joinable", "joined"}]
      /\ tpc \in [Pipes -> {"over", "top", "send", "check"}]
      /\ tstale \in [Pipes -> BOOLEAN]
      /\ h \in Threads /\ \A d \in Disconnectors : d # h
      /\ Pipes \subseteq Threads /\ Disconnectors \subseteq Threads
  BY SessionTypes
<1>1. /\ pipe' = pipe /\ inbox' = inbox /\ asked' = asked /\ target' = target
      /\ \A d \in Disconnectors : op'[d] = op[d]
  BY <1>0 DEF HandleRefused, HandleChecked, HandleSession, HandleEmplace, HandleTerminates,
              Crash, HandlerReturn, OpTo, pstVars, pipeVars, clientVars
<1>2. \A g \in Pipes : Helped(g)' = Helped(g)
  BY <1>1, HelpedKept
<1>3. ASSUME NEW g \in Pipes, g # h PROVE SessionAgrees(g)'
  <2>1. Same(g)
    BY <1>0, <1>1, <1>3
       DEF HandleRefused, HandleChecked, HandleSession, HandleEmplace, HandleTerminates,
           Crash, HandlerReturn, Go, OpTo, pstVars, pipeVars, threadVars, clientVars, dataVars, Same
  <2> QED BY <1>2, <2>1, SameAgrees DEF SessionInv
<1>4. SessionAgrees(h) /\ PcAgrees(h) /\ MapAgrees(h) /\ ClientAgrees(h)
  BY DEF SessionInv, SessionAgrees
<1>5. CASE HandleRefused(h)
  <2>1. /\ op[h] = "start" /\ op'[h] = "idle" /\ pc[h] = "handler" /\ pc'[h] = "read"
        /\ streamMap' = streamMap /\ pool' = pool /\ tpc' = tpc /\ tstale' = tstale
    BY <1>0, <1>5 DEF HandleRefused, HandlerReturn, Go, OpTo, dataVars, clientVars
  <2>2. cmd[h] = START /\ (pool[h] # "absent" => streamMap[h] # "none" \/ Helped(h))
    BY <1>4, <2>1 DEF PcAgrees, MapAgrees, Works
  <2>3. Live(h)' /\ tstale'[h] /\ pipe[h] = "connected" => Helped(h)'
    BY <1>2, <1>4, <2>1 DEF ClientAgrees, Live
  <2>4. SessionAgrees(h)'
    BY <1>1, <1>2, <2>1, <2>2, <2>3, HandlerReturnAgrees
  <2> QED BY <1>3, <2>4
<1>6. CASE HandleEmplace(h)
  <2>1. /\ op[h] = "emplace" /\ op'[h] = "idle" /\ pc[h] = "handler" /\ pc'[h] = "read"
        /\ streamMap' = streamMap /\ (tstale'[h] <=> pipe[h] # "connected")
    BY <1>0, <1>6 DEF HandleEmplace, HandlerReturn, Go, OpTo
  <2>2. cmd[h] = START /\ streamMap[h] # "none"
    BY <1>4, <2>1 DEF PcAgrees, MapAgrees
  <2>3. SessionAgrees(h)'
    BY <1>1, <2>1, <2>2, HandlerReturnAgrees
  <2> QED BY <1>3, <2>3
<1>7. CASE HandleChecked(h) \/ HandleSession(h)
  <2>1. /\ op[h] \in {"start", "startLock"} /\ op'[h] \in {"startLock", "emplace"}
        /\ op'[h] = "emplace" => streamMap'[h] # "none"
        /\ streamMap[h] # "none" => streamMap'[h] # "none"
        /\ pc' = pc /\ cmd' = cmd /\ pool' = pool /\ tpc' = tpc /\ tstale' = tstale
    BY <1>0, <1>7 DEF HandleChecked, HandleSession, OpTo, pstVars, threadVars, dataVars, clientVars
  <2>2. PcAgrees(h)'
    BY <1>4, <2>1 DEF PcAgrees, Works
  <2>3. MapAgrees(h)'
    BY <1>2, <1>4, <2>1 DEF PcAgrees, MapAgrees, Works, Waiting
  <2>4. PoolAgrees(h)' /\ InboxAgrees(h)' /\ AskedAgrees(h)' /\ ClientAgrees(h)'
    BY <1>1, <1>2, <1>4, <2>1 DEF SessionAgrees, PoolAgrees, InboxAgrees, AskedAgrees, ClientAgrees, Live
  <2>5. SessionAgrees(h)'
    BY <2>2, <2>3, <2>4 DEF SessionAgrees
  <2> QED BY <1>3, <2>5
<1>8. CASE HandleTerminates(h)
  <2>1. Same(h)
    BY <1>8 DEF HandleTerminates, Crash, Same, pstVars, pipeVars, threadVars, dataVars, clientVars
  <2>2. SessionAgrees(h)'
    BY <1>2, <1>4, <2>1, SameAgrees
  <2> QED BY <1>3, <2>2
<1> QED BY <1>5, <1>6, <1>7, <1>8

-----------------------------------------------------------------------------
(* The cleanup of stopHandler and onDisconnect *)

\* A step of a cleanup that the thread of h goes on after.
LEMMA CleanAgrees ==
    ASSUME SessionInv, NEW h \in Pipes,
           pc'[h] = pc[h], cmd'[h] = cmd[h], pipe'[h] = pipe[h], inbox'[h] = inbox[h],
           asked'[h] = asked[h],
           \/ op'[h] = op[h]
           \/ op[h] \in Works /\ op'[h] \in Works \cup {"dangling"}
           \/ op[h] \in {"brk", "lost"} /\ op'[h] \in Works,
           \/ streamMap'[h] = streamMap[h]
           \/ streamMap'[h] = "none" /\ op'[h] # "emplace"
           \/ streamMap'[h] # "none" /\ pc[h] = "handler",
           op[h] = "lost" /\ op'[h] # "lost" => streamMap'[h] = "none",
           \/ Helped(h)'
           \/ pool'[h] = "absent" /\ ~Live(h)'
           \/ /\ op'[h] \in Works /\ Helped(h)' = Helped(h)
              /\ Live(h)' = Live(h) /\ tstale'[h] = tstale[h]
    PROVE  SessionAgrees(h)'
<1>1. /\ PcAgrees(h) /\ MapAgrees(h) /\ PoolAgrees(h)
      /\ InboxAgrees(h) /\ AskedAgrees(h) /\ ClientAgrees(h)
  BY DEF SessionInv, SessionAgrees
<1>2. PcAgrees(h)'
  BY <1>1, SessionTypes DEF PcAgrees, Works
<1>3. /\ op'[h] = "emplace" => streamMap'[h] # "none"
      /\ pc[h] \in Waiting \/ (pc[h] = "onDisconnect" /\ op'[h] # "lost") => streamMap'[h] = "none"
  BY <1>1 DEF MapAgrees, Works, Waiting
<1>4. MapAgrees(h)'
  BY <1>3 DEF MapAgrees
<1>5. pc'[h] = "handler" /\ op'[h] \in Works => cmd'[h] = BREAK
  BY <1>2 DEF PcAgrees
<1>6. op'[h] \in Works => pc'[h] \in {"handler", "onDisconnect"}
  BY <1>2 DEF PcAgrees, Works
<1>7. PoolAgrees(h)'
  BY <1>5, <1>6 DEF PoolAgrees
<1>8. InboxAgrees(h)'
  BY <1>1 DEF InboxAgrees
<1>9. AskedAgrees(h)'
  BY <1>1, <1>6 DEF AskedAgrees
<1>10. ClientAgrees(h)'
  BY <1>1 DEF ClientAgrees
<1> QED BY <1>2, <1>4, <1>7, <1>8, <1>9, <1>10 DEF SessionAgrees

\* The server thread's own cleanup is over, and so is the callback.
LEMMA ReturnAgrees ==
    ASSUME SessionInv, NEW h \in Pipes, Return(h), op[h] \in Works \cup {"brk", "lost"},
           op'[h] = "idle", streamMap'[h] = streamMap[h], op[h] = "lost" => streamMap[h] = "none",
           asked'[h] = asked[h], pool'[h] # "absent" => Helped(h)', Live(h)' => Helped(h)'
    PROVE  SessionAgrees(h)'
<1>0. pc \in [Pipes -> Points]
  BY SessionTypes
<1>1. HandlerReturn(h) \/ OnDisconnectReturn(h)
  BY DEF Return
<1>2. CASE HandlerReturn(h)
  <2>1. /\ pc[h] = "handler" /\ pc'[h] = "read" /\ pipe' = pipe /\ inbox' = inbox
    BY <1>0, <1>2 DEF HandlerReturn, Go, pipeVars
  <2> QED BY <2>1, HandlerReturnAgrees
<1>3. CASE OnDisconnectReturn(h)
  <2>1. /\ pc[h] = "onDisconnect" /\ pc'[h] = "loop" /\ pipe' = pipe /\ inbox' = inbox
    BY <1>0, <1>3 DEF OnDisconnectReturn, Go, pipeVars
  <2>2. streamMap[h] = "none"
    BY <2>1 DEF SessionInv, SessionAgrees, MapAgrees
  <2> QED BY <2>1, <2>2, LostReturnAgrees
<1> QED BY <1>1, <1>2, <1>3

\* What a cleanup by t leaves alone: other threads' work on other instances.
LEMMA CleanupFrame ==
    ASSUME SessionInv, NEW t \in Threads, op[t] # "idle",
           Cleanup(t) \/ (t \in Pipes /\ StopHandlerLookup(t)),
           NEW g \in Pipes, g # InstanceOf(t)
    PROVE  SessionAgrees(g)'
<1>0. /\ op \in [Threads -> ServerPoints \cup DetachedPoints]
      /\ pc \in [Pipes -> Points] /\ cmd \in [Pipes -> Msgs \cup {NoMsg}]
      /\ streamMap \in [Pipes -> {"none", "stream", "stopped"}]
      /\ pool \in [Pipes -> {"absent", "joinable", "joined"}]
      /\ target \in [Disconnectors -> Pipes \cup {NoPipe}]
      /\ Pipes \subseteq Threads /\ Disconnectors \subseteq Threads
      /\ Pipes \cap Disconnectors = {}
  BY SessionTypes
<1>1. InstanceOf(t) \in Pipes /\ (t \in Pipes => InstanceOf(t) = t)
      /\ (t \notin Pipes => t \in Disconnectors /\ InstanceOf(t) = target[t])
  BY InstanceOfBusy DEF SessionInv, OwnInv, TypeOK, InstanceOf, Threads
<1>2. t # g
  BY <1>1
<1>3. /\ tpc' = tpc /\ asked' = asked /\ tstale' = tstale /\ pipe' = pipe /\ inbox' = inbox
      /\ pc'[g] = pc[g] /\ cmd'[g] = cmd[g]
  <2>1. ASSUME Return(t) \/ UNCHANGED pstVars
        PROVE  /\ pipe' = pipe /\ inbox' = inbox /\ pc'[g] = pc[g] /\ cmd'[g] = cmd[g]
    BY <1>0, <1>2, <2>1 DEF Return, HandlerReturn, OnDisconnectReturn, Go, pstVars, pipeVars, threadVars
  <2>2. Return(t) \/ UNCHANGED pstVars
    BY DEF Cleanup, OnDisconnectLookup, StopHandlerLookup, LookupSession, PoolFind, PoolJoin,
           PoolErase, PoolDangling, Crash
  <2>3. tpc' = tpc /\ asked' = asked /\ tstale' = tstale
    BY DEF Cleanup, OnDisconnectLookup, StopHandlerLookup, LookupSession, PoolFind, PoolJoin,
           PoolErase, PoolDangling, Crash, dataVars, clientVars
  <2> QED BY <2>1, <2>2, <2>3
<1>4. streamMap'[g] = streamMap[g] /\ pool'[g] = pool[g]
  BY <1>0, <1>1 DEF Cleanup, OnDisconnectLookup, StopHandlerLookup, LookupSession, PoolFind,
           PoolJoin, PoolErase, PoolDangling, Crash, dataVars
<1>5. \A u \in Threads : u # t /\ op'[u] # op[u] => InstanceOf(u) = InstanceOf(t)
  BY <1>0 DEF Cleanup, OnDisconnectLookup, StopHandlerLookup, LookupSession, PoolFind,
           PoolJoin, PoolErase, PoolDangling, Crash, OpTo
<1>6. \A d \in Disconnectors : d # t => target'[d] = target[d]
  <2>1. target' = target \/ Return(t)
    BY DEF Cleanup, OnDisconnectLookup, StopHandlerLookup, LookupSession, PoolFind,
           PoolJoin, PoolErase, PoolDangling, Crash
  <2> QED BY <1>0, <2>1 DEF Return
<1>7. op'[g] = op[g]
  BY <1>0, <1>2, <1>5 DEF InstanceOf
<1>8. Helped(g) => Helped(g)'
  <2> SUFFICES ASSUME NEW d \in Disconnectors, target[d] = g, op[d] \in Works
               PROVE  Helped(g)'
    BY DEF Helped
  <2>1. InstanceOf(d) = g
    BY <1>0 DEF InstanceOf
  <2>2. d # t /\ op'[d] = op[d] /\ target'[d] = target[d]
    BY <1>0, <1>5, <1>6, <2>1
  <2> QED BY <2>2 DEF Helped
<1> QED BY <1>3, <1>4, <1>7, <1>8, SameAgrees DEF Same, SessionInv

\* A server thread cleans up after its own client.
LEMMA OwnCleanupAgrees ==
    ASSUME SessionInv, NEW h \in Pipes, op[h] # "idle", Cleanup(h) \/ StopHandlerLookup(h)
    PROVE  SessionAgrees(h)'
<1>0. /\ op \in [Threads -> ServerPoints \cup DetachedPoints]
      /\ streamMap \in [Pipes -> {"none", "stream", "stopped"}]
      /\ pool \in [Pipes -> {"absent", "joinable", "joined"}]
      /\ h \in Threads /\ Disconnectors \subseteq Threads
      /\ \A d \in Disconnectors : d # h
      /\ InstanceOf(h) = h
  BY SessionTypes DEF InstanceOf
<1>1. PcAgrees(h) /\ MapAgrees(h) /\ ClientAgrees(h) /\ SessionAgrees(h)
  BY DEF SessionInv, SessionAgrees
<1>2. target' = target /\ tpc' = tpc /\ asked' = asked /\ tstale' = tstale /\ Live(h)' = Live(h)
  BY <1>0 DEF Cleanup, OnDisconnectLookup, StopHandlerLookup, LookupSession, PoolFind,
              PoolJoin, PoolErase, PoolDangling, Crash, Return, dataVars, clientVars, Live
<1>3. ASSUME NEW value \in {"none", "stopped"}, NEW point \in {"brk", "lost"},
             value = "none" <=> point = "lost", LookupSession(h, point, value)
      PROVE  SessionAgrees(h)'
  <2>1. op[h] = point
    BY <1>3 DEF LookupSession
  <2>2. CASE streamMap[h] # "none"
    <3>1. /\ streamMap'[h] = value /\ op' = [op EXCEPT ![h] = "find"]
          /\ UNCHANGED <<pc, cmd, pipe, inbox>>
      BY <1>0, <1>3, <2>2 DEF LookupSession, OpTo, pstVars, threadVars, pipeVars
    <3>2. op'[h] = "find" /\ Helped(h)' = Helped(h)
      BY <1>0, <1>2, <3>1, HelpedKept
    <3>3. streamMap'[h] = "none" \/ pc[h] = "handler"
      BY <1>1, <1>3, <2>1, <3>1 DEF PcAgrees
    <3> QED BY <1>2, <1>3, <2>1, <3>1, <3>2, <3>3, CleanAgrees DEF Works
  <2>3. CASE streamMap[h] = "none"
    <3>1. Return(h) /\ op' = [op EXCEPT ![h] = "idle"] /\ streamMap' = streamMap /\ pool' = pool
      BY <1>0, <1>3, <2>3 DEF LookupSession, OpTo
    <3>2. op'[h] = "idle" /\ Helped(h)' = Helped(h)
      BY <1>0, <1>2, <3>1, HelpedKept
    <3>3. pool[h] # "absent" => Helped(h)
      BY <1>1, <2>1, <2>3 DEF MapAgrees, Works
    <3>4. Live(h) => Helped(h)
      BY <3>3, LiveHasEntry
    <3> QED BY <1>2, <2>1, <2>3, <3>1, <3>2, <3>3, <3>4, ReturnAgrees
  <2> QED BY <2>2, <2>3
<1>4. CASE PoolFind(h)
  <2>1. CASE pool[h] # "absent"
    <3>1. op[h] = "find" /\ op' = [op EXCEPT ![h] = "join"] /\ streamMap' = streamMap
          /\ UNCHANGED <<pc, cmd, pipe, inbox>>
      BY <1>0, <1>4, <2>1 DEF PoolFind, OpTo, pstVars, threadVars, pipeVars, dataVars
    <3>2. op'[h] = "join" /\ Helped(h)' = Helped(h)
      BY <1>0, <1>2, <3>1, HelpedKept
    <3> QED BY <1>2, <3>1, <3>2, CleanAgrees DEF Works
  <2>2. CASE pool[h] = "absent"
    <3>1. Return(h) /\ op[h] = "find" /\ op'[h] = "idle" /\ streamMap' = streamMap /\ pool' = pool
      BY <1>0, <1>4, <2>2 DEF PoolFind, OpTo, dataVars
    <3>2. ~Live(h)
      BY <2>2, LiveHasEntry
    <3> QED BY <1>2, <2>2, <3>1, <3>2, ReturnAgrees DEF Works
  <2> QED BY <2>1, <2>2
<1>5. CASE PoolJoin(h)
  <2>1. /\ op[h] = "join" /\ op' = [op EXCEPT ![h] = "erase"] /\ streamMap' = streamMap
        /\ UNCHANGED <<pc, cmd, pipe, inbox>>
    BY <1>5 DEF PoolJoin, OpTo, pstVars, threadVars, pipeVars
  <2>2. op'[h] = "erase" /\ Helped(h)' = Helped(h)
    BY <1>0, <1>2, <2>1, HelpedKept
  <2> QED BY <1>2, <2>1, <2>2, CleanAgrees DEF Works
<1>6. CASE PoolErase(h)
  <2>1. /\ op[h] = "erase" /\ op'[h] = "idle" /\ streamMap' = streamMap
        /\ pool'[h] = "absent" /\ Return(h)
    BY <1>0, <1>6 DEF PoolErase
  <2>2. pool[h] = "joined"
    BY <1>0, <2>1 DEF SessionInv, OwnInv, Owned, ErasedIsJoined
  <2>3. ~Live(h)
    BY <2>2 DEF SessionInv, OwnInv, Owned, LiveTranslationIsOwned
  <2> QED BY <1>2, <2>1, <2>3, ReturnAgrees DEF Works
<1>7. CASE PoolDangling(h)
  <2>1. Same(h) /\ op' = op
    BY <1>7 DEF PoolDangling, Crash, Same, pstVars, pipeVars, threadVars, dataVars, clientVars
  <2>2. Helped(h)' = Helped(h)
    BY <1>2, <2>1, HelpedKept
  <2> QED BY <1>1, <2>1, <2>2, SameAgrees
<1> QED BY <1>3, <1>4, <1>5, <1>6, <1>7 DEF Cleanup, OnDisconnectLookup, StopHandlerLookup

\* A detached thread cleans up after the client of its instance, and perhaps after
\* the next one: the thread of the instance finds its Session gone.
LEMMA DetachedCleanupAgrees ==
    ASSUME SessionInv, NEW d \in Disconnectors, NEW h \in Pipes, target[d] = h,
           op[d] # "idle", Cleanup(d)
    PROVE  SessionAgrees(h)'
<1>0. /\ op \in [Threads -> ServerPoints \cup DetachedPoints]
      /\ streamMap \in [Pipes -> {"none", "stream", "stopped"}]
      /\ pool \in [Pipes -> {"absent", "joinable", "joined"}]
      /\ Pipes \subseteq Threads /\ d \in Threads
      /\ d \notin Pipes
  BY SessionTypes
<1>1. h \in Threads /\ h # d /\ InstanceOf(h) = h /\ InstanceOf(d) = h
  BY <1>0 DEF InstanceOf
<1>2. PcAgrees(h) /\ MapAgrees(h) /\ ClientAgrees(h) /\ SessionAgrees(h)
  BY DEF SessionInv, SessionAgrees
<1>3. /\ pc' = pc /\ cmd' = cmd /\ pipe' = pipe /\ inbox' = inbox
      /\ tpc' = tpc /\ asked' = asked /\ tstale' = tstale /\ Live(h)' = Live(h)
  <2>1. UNCHANGED <<pstVars, tpc, asked, tstale>>
    BY <1>0 DEF Cleanup, OnDisconnectLookup, LookupSession, PoolFind, PoolJoin, PoolErase,
                PoolDangling, Crash, Return, dataVars, clientVars
  <2> QED BY <2>1 DEF Live, pstVars, threadVars, pipeVars
<1>4. CASE OnDisconnectLookup(d)
  <2>1. op[d] = "lost" /\ mtxFree
    BY <1>4 DEF OnDisconnectLookup, LookupSession
  <2>2. CASE streamMap[h] # "none"
    <3>1. /\ streamMap'[h] = "none" /\ op' = [op EXCEPT ![d] = "find"] /\ target' = target
      BY <1>0, <1>1, <1>4, <2>2 DEF OnDisconnectLookup, LookupSession, OpTo
    <3>2. op'[d] = "find" /\ op'[h] = op[h] /\ op[h] # "emplace"
      BY <1>0, <1>1, <2>1, <3>1 DEF mtxFree
    <3>3. Helped(h)'
      BY <3>1, <3>2 DEF Helped, Works
    <3> QED BY <1>3, <3>1, <3>2, <3>3, CleanAgrees
  <2>3. CASE streamMap[h] = "none"
    <3>1. /\ Return(d) /\ op' = [op EXCEPT ![d] = "idle"] /\ streamMap' = streamMap /\ pool' = pool
      BY <1>0, <1>1, <1>4, <2>3 DEF OnDisconnectLookup, LookupSession, OpTo
    <3>2. \A e \in Disconnectors : e # d => op'[e] = op[e] /\ target'[e] = target[e]
      BY <1>0, <3>1, ReturnType DEF Threads, SessionInv, OwnInv, TypeOK
    <3>3. Helped(h) => Helped(h)'
      BY <2>1, <3>2 DEF Helped, Works
    <3>4. Same(h)
      BY <1>0, <1>1, <1>3, <3>1 DEF Same
    <3> QED BY <1>2, <3>3, <3>4, SameAgrees
  <2> QED BY <2>2, <2>3
<1>5. CASE PoolFind(d)
  <2>1. CASE pool[h] # "absent"
    <3>1. /\ op[d] = "find" /\ op' = [op EXCEPT ![d] = "join"] /\ target' = target
          /\ streamMap' = streamMap
      BY <1>1, <1>5, <2>1 DEF PoolFind, OpTo, dataVars
    <3>2. op'[d] = "join" /\ op'[h] = op[h]
      BY <1>0, <1>1, <3>1
    <3>3. Helped(h)'
      BY <3>1, <3>2 DEF Helped, Works
    <3>4. op[h] = "lost" => op'[h] = "lost"
      BY <3>2
    <3> QED BY <1>3, <3>1, <3>2, <3>3, <3>4, CleanAgrees
  <2>2. CASE pool[h] = "absent"
    <3>1. op'[h] = op[h] /\ streamMap' = streamMap /\ pool' = pool
      BY <1>0, <1>1, <1>5, <2>2 DEF PoolFind, OpTo, dataVars
    <3>2. ~Live(h)' /\ pool'[h] = "absent" /\ streamMap'[h] = streamMap[h]
      BY <1>3, <2>2, <3>1, LiveHasEntry
    <3> QED BY <1>3, <3>1, <3>2, CleanAgrees
  <2> QED BY <2>1, <2>2
<1>6. CASE PoolJoin(d)
  <2>1. /\ op' = [op EXCEPT ![d] = "erase"] /\ target' = target /\ streamMap' = streamMap
    BY <1>6 DEF PoolJoin, OpTo
  <2>2. op'[d] = "erase" /\ op'[h] = op[h]
    BY <1>0, <1>1, <2>1
  <2>3. Helped(h)'
    BY <2>1, <2>2 DEF Helped, Works
  <2> QED BY <1>3, <2>1, <2>2, <2>3, CleanAgrees
<1>7. CASE PoolErase(d)
  <2>1. /\ op[d] = "erase" /\ streamMap' = streamMap /\ pool'[h] = "absent"
        /\ op'[h] = op[h] \/ (op[h] \in Works /\ op'[h] = "dangling")
    BY <1>0, <1>1, <1>7 DEF PoolErase, Works
  <2>2. pool[h] = "joined"
    BY <1>0, <1>1, <2>1 DEF SessionInv, OwnInv, Owned, ErasedIsJoined
  <2>3. ~Live(h)'
    BY <1>3, <2>2 DEF SessionInv, OwnInv, Owned, LiveTranslationIsOwned
  <2>4. op[h] = "lost" => op'[h] = "lost"
    BY <2>1 DEF Works
  <2> QED BY <1>3, <2>1, <2>3, <2>4, CleanAgrees
<1>8. CASE PoolDangling(d)
  <2>1. Same(h) /\ op' = op /\ target' = target
    BY <1>8 DEF PoolDangling, Crash, Same, pstVars, pipeVars, threadVars, dataVars, clientVars
  <2>2. Helped(h)' = Helped(h)
    BY <2>1, HelpedKept
  <2> QED BY <1>2, <2>1, <2>2, SameAgrees
<1> QED BY <1>4, <1>5, <1>6, <1>7, <1>8 DEF Cleanup

\* A cleanup, whoever's.
LEMMA CleanupAgrees ==
    ASSUME SessionInv, NEW t \in Threads,
           Cleanup(t) \/ (t \in Pipes /\ StopHandlerLookup(t))
    PROVE  \A g \in Pipes : SessionAgrees(g)'
<1>1. op[t] # "idle"
  BY DEF Cleanup, OnDisconnectLookup, StopHandlerLookup, LookupSession, PoolFind, PoolJoin,
         PoolErase, PoolDangling
<1>2. ASSUME NEW g \in Pipes, g # InstanceOf(t) PROVE SessionAgrees(g)'
  BY <1>1, <1>2, CleanupFrame
<1>3. ASSUME NEW g \in Pipes, g = InstanceOf(t) PROVE SessionAgrees(g)'
  <2>1. CASE t \in Pipes
    <3>1. g = t
      BY <1>3, <2>1 DEF InstanceOf
    <3> QED BY <1>1, <2>1, <3>1, OwnCleanupAgrees
  <2>2. CASE t \notin Pipes
    <3>1. t \in Disconnectors /\ target[t] = g /\ Cleanup(t)
      BY <1>3, <2>2 DEF InstanceOf, Threads
    <3> QED BY <1>1, <3>1, DetachedCleanupAgrees
  <2> QED BY <2>1, <2>2
<1> QED BY <1>2, <1>3

-----------------------------------------------------------------------------
(* Translations, clients, detached threads and stop *)

\* A translation ends, or every Session is stopped.
LEMMA QuietAgrees ==
    ASSUME NEW g \in Pipes, SessionAgrees(g),
           UNCHANGED <<pc, cmd, pipe, inbox, pool, asked, tstale>>, op'[g] = op[g],
           streamMap'[g] = "none" <=> streamMap[g] = "none",
           Live(g)' => Live(g), Helped(g) => Helped(g)'
    PROVE  SessionAgrees(g)'
<1>1. PcAgrees(g)' /\ MapAgrees(g)' /\ PoolAgrees(g)'
  BY DEF SessionAgrees, PcAgrees, MapAgrees, PoolAgrees
<1>2. InboxAgrees(g)' /\ AskedAgrees(g)'
  BY DEF SessionAgrees, InboxAgrees, AskedAgrees
<1>3. ClientAgrees(g)'
  BY DEF SessionAgrees, ClientAgrees
<1> QED BY <1>1, <1>2, <1>3 DEF SessionAgrees

\* A translation goes on, or ends and leaves a detached thread behind.
LEMMA TranslateAgrees ==
    ASSUME SessionInv, NEW h \in Pipes, Translate(h)
    PROVE  \A g \in Pipes : SessionAgrees(g)'
<1>0. /\ tpc \in [Pipes -> {"over", "top", "send", "check"}]
      /\ op \in [Threads -> ServerPoints \cup DetachedPoints]
      /\ target \in [Disconnectors -> Pipes \cup {NoPipe}]
      /\ Disconnectors \subseteq Threads /\ \A d \in Disconnectors : d \notin Pipes
  BY SessionTypes
<1>1. /\ UNCHANGED <<pc, cmd, pipe, inbox, pool, asked, tstale, streamMap>>
      /\ \A g \in Pipes : Live(g)' => Live(g)
  BY <1>0 DEF Translate, TranslateNext, TranslateSend, TranslateCheck, TranslateEnd, Live,
              pstVars, pipeVars, threadVars, clientVars
<1>2. /\ \A d \in Disconnectors : op[d] \in Works => op'[d] = op[d] /\ target'[d] = target[d]
      /\ \A g \in Pipes : op'[g] = op[g]
  <2>1. CASE TranslateNext(h) \/ TranslateSend(h) \/ TranslateCheck(h)
    BY <2>1 DEF TranslateNext, TranslateSend, TranslateCheck
  <2>2. CASE TranslateEnd(h)
    <3>1. PICK d \in Disconnectors : /\ op[d] = "idle" /\ OpTo(d, "disc")
                                     /\ target' = [target EXCEPT ![d] = h]
      BY <2>2 DEF TranslateEnd
    <3> QED BY <1>0, <3>1 DEF OpTo, Works
  <2> QED BY <2>1, <2>2 DEF Translate
<1>3. \A g \in Pipes : Helped(g) => Helped(g)'
  BY <1>2 DEF Helped
<1> QED BY <1>1, <1>2, <1>3, QuietAgrees DEF SessionInv

\* The client of an instance that could be opened is new: nobody has anything of it.
LEMMA ClientConnectsAgrees ==
    ASSUME SessionInv, NEW h \in Pipes, ClientConnects(h)
    PROVE  \A g \in Pipes : SessionAgrees(g)'
<1>0. pc \in [Pipes -> Points] /\ pipe \in [Pipes -> PipeStates]
  BY SessionTypes
<1>1. /\ pipe[h] \in {"created", "listening"} /\ pipe' = [pipe EXCEPT ![h] = "connected"]
      /\ inbox' = inbox /\ UNCHANGED <<threadVars, ownerVars>>
  BY DEF ClientConnects, ClientOpen
<1>2. /\ UNCHANGED <<pc, cmd, streamMap, pool, tpc, op, target, asked, tstale>>
      /\ \A g \in Pipes : Helped(g)' = Helped(g) /\ Live(g)' = Live(g)
  BY <1>1, HelpedKept DEF threadVars, ownerVars, dataVars, clientVars, Live
<1>3. ASSUME NEW g \in Pipes, g # h PROVE SessionAgrees(g)'
  BY <1>0, <1>1, <1>2, <1>3, SameAgrees DEF Same, SessionInv
<1>4. InboxAgrees(h) /\ AskedAgrees(h) /\ ClientAgrees(h)
  BY DEF SessionInv, SessionAgrees
<1>5. pc[h] \in Waiting
  <2>1. pc[h] \notin {"read", "waitRead", "handler", "disconnect"}
    BY <1>1 DEF SessionInv, PSTInv, ServedWhileReading, Served
  <2>2. pc[h] # "onDisconnect"
    BY <1>1, <1>4 DEF ClientAgrees
  <2> QED BY <1>0, <2>1, <2>2 DEF Points, Waiting
<1>6. /\ op[h] = "idle" /\ streamMap[h] = "none"
      /\ pool[h] # "absent" => Helped(h)
      /\ Live(h) => Helped(h)
  BY <1>5, WaitingIsClean
<1>7. inbox[h] = <<>> /\ asked[h] = NoMsg /\ pipe'[h] = "connected"
  BY <1>0, <1>1, <1>4 DEF InboxAgrees, AskedAgrees
<1>8. PcAgrees(h)'
  BY <1>2, <1>5, <1>6 DEF PcAgrees, Waiting, Works
<1>9. MapAgrees(h)' /\ PoolAgrees(h)'
  BY <1>2, <1>6 DEF MapAgrees, PoolAgrees
<1>10. InboxAgrees(h)'
  BY <1>1, <1>2, <1>4, <1>7 DEF InboxAgrees
<1>11. AskedAgrees(h)'
  BY <1>1, <1>2, <1>5, <1>6, <1>7 DEF AskedAgrees, Waiting
<1>12. ClientAgrees(h)'
  BY <1>2, <1>5, <1>6 DEF ClientAgrees, Waiting
<1>13. SessionAgrees(h)'
  BY <1>8, <1>9, <1>10, <1>11, <1>12 DEF SessionAgrees
<1> QED BY <1>3, <1>13

\* The next command is not the last one: the window enables Start and Stop in turn.
LEMMA ClientAsksAgrees ==
    ASSUME SessionInv, NEW h \in Pipes, ClientAsks(h)
    PROVE  \A g \in Pipes : SessionAgrees(g)'
<1>0. /\ inbox \in [Pipes -> Seq(Msgs)] /\ asked \in [Pipes -> Msgs \cup {NoMsg}]
      /\ NoMsg \notin Msgs /\ Msgs = {START, BREAK} /\ START # BREAK
  BY SessionTypes
<1>m. PICK m \in Msgs : m = IF asked[h] = START THEN BREAK ELSE START
  BY <1>0
<1>1. /\ pipe[h] = "connected" /\ pipe' = pipe
      /\ inbox' = [inbox EXCEPT ![h] = Append(@, m)]
      /\ asked' = [asked EXCEPT ![h] = m]
      /\ UNCHANGED <<threadVars, dataVars, op, target, tstale>>
  BY <1>m DEF ClientAsks, ClientWrite
<1>2. /\ UNCHANGED <<pc, cmd, streamMap, pool, tpc, op, target, tstale>>
      /\ \A g \in Pipes : Helped(g)' = Helped(g) /\ Live(g)' = Live(g)
  BY <1>1, HelpedKept DEF threadVars, dataVars, Live
<1>3. ASSUME NEW g \in Pipes, g # h PROVE SessionAgrees(g)'
  BY <1>0, <1>1, <1>2, <1>3, SameAgrees DEF Same, SessionInv
<1>4. /\ PcAgrees(h) /\ MapAgrees(h) /\ PoolAgrees(h)
      /\ InboxAgrees(h) /\ AskedAgrees(h) /\ ClientAgrees(h)
  BY DEF SessionInv, SessionAgrees
<1>s. PICK s \in Seq(Msgs) : s = inbox[h]
  BY <1>0
<1>t. PICK t : t = Append(s, m)
  OBVIOUS
<1>5. inbox'[h] = t /\ asked'[h] = m /\ m # asked[h]
  BY <1>0, <1>1, <1>m, <1>s, <1>t
<1>6. /\ t \in Seq(Msgs) /\ t # <<>> /\ Len(t) = Len(s) + 1 /\ Len(s) \in Nat
      /\ \A i \in 1 .. Len(s) : t[i] = s[i]
      /\ t[Len(s) + 1] = m
  <2>1. /\ t \in Seq(Msgs) /\ t # <<>> /\ Len(t) = Len(s) + 1
        /\ \A i \in 1 .. Len(s) : t[i] = s[i]
        /\ t[Len(s) + 1] = m
    BY <1>t, AppendProperties
  <2> QED BY <2>1
<1>7. s # <<>> => Len(s) \in 1 .. Len(s) /\ t[1] = s[1] /\ asked[h] = s[Len(s)]
  <2>1. s # <<>> => Len(s) \in 1 .. Len(s) /\ 1 \in 1 .. Len(s)
    OBVIOUS
  <2>2. s # <<>> => asked[h] = s[Len(s)]
    BY <1>1, <1>4, <1>s DEF AskedAgrees
  <2> QED BY <1>6, <2>1, <2>2
<1>8. s = <<>> => t[1] = m /\ Len(s) = 0
  BY <1>6
<1>9. PcAgrees(h)'
  BY <1>2, <1>4 DEF PcAgrees
<1>10. MapAgrees(h)'
  BY <1>2, <1>4 DEF MapAgrees
<1>11. PoolAgrees(h)'
  <2>1. CASE s # <<>>
    BY <1>2, <1>4, <1>5, <1>7, <1>s, <2>1 DEF PoolAgrees
  <2>2. CASE s = <<>>
    <3>1. pool[h] # "absent" /\ pc[h] \in {"read", "waitRead"} => asked[h] = START \/ Helped(h)
      BY <1>1, <1>4, <1>s, <2>2 DEF AskedAgrees
    <3>2. asked[h] = START => t[1] = BREAK
      BY <1>8, <1>m, <2>2
    <3> QED BY <1>2, <1>4, <1>5, <3>1, <3>2 DEF PoolAgrees
  <2> QED BY <2>1, <2>2
<1>12. InboxAgrees(h)'
  <2>1. ASSUME NEW i \in 1 .. Len(t) - 1 PROVE t[i] # t[i + 1]
    <3>1. CASE i = Len(s)
      <4>1. s # <<>>
        BY <3>1, <1>6, <2>1
      <4> QED BY <1>5, <1>6, <1>7, <3>1, <4>1
    <3>2. CASE i # Len(s)
      <4>1. i \in 1 .. Len(s) /\ i + 1 \in 1 .. Len(s) /\ i \in 1 .. Len(s) - 1
        BY <1>6, <2>1, <3>2
      <4>2. s[i] # s[i + 1]
        BY <1>4, <1>s, <4>1 DEF InboxAgrees
      <4> QED BY <1>6, <4>1, <4>2
    <3> QED BY <3>1, <3>2
  <2>2. pc[h] = "handler" => t[1] # cmd[h]
    <3>1. CASE s # <<>>
      BY <1>4, <1>7, <1>s, <3>1 DEF InboxAgrees
    <3>2. CASE s = <<>>
      BY <1>1, <1>4, <1>5, <1>8, <1>s, <3>2 DEF AskedAgrees
    <3> QED BY <3>1, <3>2
  <2> QED BY <1>1, <1>2, <1>5, <2>1, <2>2 DEF InboxAgrees
<1>13. AskedAgrees(h)'
  <2>1. t[Len(t)] = m
    BY <1>6
  <2> QED BY <1>1, <1>5, <1>6, <2>1 DEF AskedAgrees
<1>14. ClientAgrees(h)'
  BY <1>1, <1>2, <1>4 DEF ClientAgrees
<1>15. SessionAgrees(h)'
  BY <1>9, <1>10, <1>11, <1>12, <1>13, <1>14 DEF SessionAgrees
<1> QED BY <1>3, <1>15

\* The client of h leaves, by itself or because a detached thread disconnects it.
LEMMA LeavingAgrees ==
    ASSUME SessionInv, NEW h \in Pipes, ClientLeaves(h), UNCHANGED <<threadVars, dataVars, target>>,
           \A g \in Pipes : op'[g] = op[g] /\ Helped(g)' = Helped(g),
           \A g \in Pipes \ {h} : pipe'[g] = pipe[g] /\ inbox'[g] = inbox[g],
           \/ pipe[h] = "connected" /\ pipe'[h] = "closing" /\ inbox'[h] = inbox[h]
           \/ pipe'[h] \in {"disconnected", "closed"} /\ inbox'[h] = <<>>
              /\ (pipe'[h] = "closed" => pipe[h] = "closed")
    PROVE  \A g \in Pipes : SessionAgrees(g)'
<1>0. /\ asked \in [Pipes -> Msgs \cup {NoMsg}] /\ tstale \in [Pipes -> BOOLEAN]
  BY SessionTypes
<1>1. /\ asked' = [asked EXCEPT ![h] = NoMsg]
      /\ tstale' = [tstale EXCEPT ![h] = Live(h)]
      /\ UNCHANGED <<pc, cmd, streamMap, pool, tpc, target>>
      /\ \A g \in Pipes : Live(g)' = Live(g)
  BY DEF ClientLeaves, threadVars, dataVars, Live
<1>2. ASSUME NEW g \in Pipes, g # h PROVE SessionAgrees(g)'
  <2>1. Same(g)
    BY <1>0, <1>1, <1>2 DEF Same
  <2> QED BY <1>2, <2>1, SameAgrees DEF SessionInv
<1>3. /\ PcAgrees(h) /\ MapAgrees(h) /\ PoolAgrees(h)
      /\ InboxAgrees(h) /\ ClientAgrees(h)
  BY DEF SessionInv, SessionAgrees
<1>4. asked'[h] = NoMsg /\ pipe'[h] # "connected" /\ (inbox'[h] = inbox[h] \/ inbox'[h] = <<>>)
  BY <1>0, <1>1
<1>5. PcAgrees(h)' /\ MapAgrees(h)'
  BY <1>1, <1>3 DEF PcAgrees, MapAgrees
<1>6. PoolAgrees(h)'
  BY <1>1, <1>3, <1>4 DEF PoolAgrees
<1>7. InboxAgrees(h)'
  <2>1. \A i \in 1 .. Len(inbox'[h]) - 1 : inbox'[h][i] # inbox'[h][i + 1]
    BY <1>3, <1>4 DEF InboxAgrees
  <2>2. inbox'[h] # <<>> => pipe'[h] \in {"connected", "closing"} /\ inbox'[h] = inbox[h]
    BY <1>4
  <2> QED BY <1>1, <1>3, <2>1, <2>2 DEF InboxAgrees
<1>8. AskedAgrees(h)'
  BY <1>4 DEF AskedAgrees
<1>9. pc[h] = "onDisconnect" => pipe'[h] = "disconnected"
  BY <1>3 DEF ClientAgrees
<1>10. ClientAgrees(h)'
  BY <1>1, <1>4, <1>9 DEF ClientAgrees
<1>11. SessionAgrees(h)'
  BY <1>5, <1>6, <1>7, <1>8, <1>10 DEF SessionAgrees
<1> QED BY <1>2, <1>11

\* Everything a client does.
LEMMA ClientsAgree ==
    ASSUME SessionInv, NEW h \in Pipes, Clients(h)
    PROVE  \A g \in Pipes : SessionAgrees(g)'
<1>1. CASE ClientDisconnects(h)
  <2>1. /\ pipe[h] = "connected" /\ pipe' = [pipe EXCEPT ![h] = "closing"] /\ inbox' = inbox
        /\ ClientLeaves(h) /\ UNCHANGED <<threadVars, dataVars, op, target>>
    BY <1>1 DEF ClientDisconnects, ClientClose
  <2>2. /\ \A g \in Pipes \ {h} : pipe'[g] = pipe[g]
        /\ pipe'[h] = "closing"
    BY <2>1, SessionTypes
  <2>3. \A g \in Pipes : Helped(g)' = Helped(g)
    BY <2>1, HelpedKept
  <2> QED BY <2>1, <2>2, <2>3, LeavingAgrees
<1> QED BY <1>1, ClientConnectsAgrees, ClientAsksAgrees DEF Clients

\* Everything a detached thread does.
LEMMA DetachedAgrees ==
    ASSUME SessionInv, NEW d \in Disconnectors, Detached(d)
    PROVE  \A g \in Pipes : SessionAgrees(g)'
<1>0. /\ op \in [Threads -> ServerPoints \cup DetachedPoints]
      /\ pipe \in [Pipes -> PipeStates] /\ inbox \in [Pipes -> Seq(Msgs)]
      /\ Pipes \subseteq Threads /\ Disconnectors \subseteq Threads /\ d \in Threads
      /\ \A g \in Pipes : g # d
  BY SessionTypes
<1>1. CASE DetachedDisconnects(d)
  <2>h. PICK h \in Pipes : h = target[d]
    BY <1>1 DEF DetachedDisconnects, SessionInv, OwnInv, TypeOK, OwnerTypeOK
  <2>1. /\ op[d] = "disc" /\ op' = [op EXCEPT ![d] = "lost"] /\ DisconnectNamedPipe(h)
        /\ ClientLeaves(h) /\ UNCHANGED <<threadVars, dataVars, target>>
    BY <1>1, <2>h DEF DetachedDisconnects, ForceDisconnect, OpTo
  <2>2. /\ inbox'[h] = <<>>
        /\ pipe'[h] \in {"disconnected", "closed"} /\ (pipe'[h] = "closed" => pipe[h] = "closed")
        /\ \A g \in Pipes \ {h} : pipe'[g] = pipe[g] /\ inbox'[g] = inbox[g]
    BY <1>0, <2>1 DEF DisconnectNamedPipe
  <2>3. \A g \in Pipes : op'[g] = op[g]
    BY <1>0, <2>1
  <2>4. \A e \in Disconnectors : target'[e] = target[e] /\ (op'[e] \in Works <=> op[e] \in Works)
    BY <1>0, <2>1 DEF Works
  <2>5. \A g \in Pipes : Helped(g)' = Helped(g)
    BY <2>4 DEF Helped
  <2> QED BY <2>1, <2>2, <2>3, <2>5, LeavingAgrees
<1>2. CASE Cleanup(d)
  BY <1>0, <1>2, CleanupAgrees
<1> QED BY <1>1, <1>2 DEF Detached

\* stop() marks every Session as stopped and takes none away.
LEMMA StopAgrees ==
    ASSUME SessionInv, Stop
    PROVE  \A g \in Pipes : SessionAgrees(g)'
<1>1. UNCHANGED <<pc, cmd, pipe, inbox, pool, tpc, op, target, asked, tstale>>
  BY DEF Stop, StopStore, StopFlags, StopThreads, StopOverall, StopBegin, StopSignal, StopClear,
         StopUnlock, StopWaited, pstVars, threadVars, pipeVars, ownerVars, dataVars, clientVars
<1>2. \A g \in Pipes : streamMap'[g] = "none" <=> streamMap[g] = "none"
  BY DEF Stop, StopStore, StopFlags, StopThreads, ownerVars, dataVars
<1>3. \A g \in Pipes : Live(g)' = Live(g) /\ Helped(g)' = Helped(g) /\ op'[g] = op[g]
  BY <1>1, HelpedKept DEF Live
<1> QED BY <1>1, <1>2, <1>3, QuietAgrees DEF SessionInv

\* Nothing that a session is about changes.
LEMMA SessionStutters ==
    ASSUME SessionInv,
           UNCHANGED <<pc, cmd, pipe, inbox, streamMap, pool, tpc, op, target, asked, tstale>>
    PROVE  \A g \in Pipes : SessionAgrees(g)'
<1>1. \A g \in Pipes : Live(g)' = Live(g) /\ Helped(g)' = Helped(g)
  BY HelpedKept DEF Live
<1> QED BY <1>1, QuietAgrees DEF SessionInv

\* Every step keeps the sessions in agreement.
LEMMA SessionStep == SessionInv /\ [Next]_vars => SessionInv'
<1> SUFFICES ASSUME SessionInv, [Next]_vars PROVE SessionInv'
    OBVIOUS
<1>0. OwnInv' /\ PSTInv'
  BY OwnStep, StepRefines, PSTInvStep DEF SessionInv, OwnInv
<1> SUFFICES \A g \in Pipes : SessionAgrees(g)'
  BY <1>0 DEF SessionInv
<1>1. ASSUME NEW h \in Pipes, Server(h) PROVE \A g \in Pipes : SessionAgrees(g)'
  <2>1. CASE StopHandlerLookup(h) \/ Cleanup(h)
    BY <2>1, CleanupAgrees DEF Threads
  <2> QED BY <1>1, <2>1, ThreadStepAgrees, DispatchAgrees, ThreadDisconnectsAgrees, HandleAgrees
          DEF Server, Callback
<1>2. CASE PoolRace \/ (\E h \in Pipes : TranslateThrows(h))
  BY <1>2, SessionStutters
     DEF PoolRace, TranslateThrows, Crash, pstVars, pipeVars, threadVars, dataVars, clientVars
<1>3. CASE UNCHANGED vars
  BY <1>3, SessionStutters DEF vars, pstVars, pipeVars, threadVars, ownerVars, dataVars, clientVars
<1> QED BY <1>1, <1>2, <1>3, TranslateAgrees, ClientsAgree, DetachedAgrees, StopAgrees
        DEF Next, Terminated

\* No client, no Session, no entry of pool.
LEMMA InitHasSessionInv == Init => SessionInv
<1> SUFFICES ASSUME Init PROVE SessionInv
    OBVIOUS
<1>1. OwnInv /\ PSTInv
  BY InitHasType, InitHasPSTInv
     DEF Init, OwnInv, Owned, LiveTranslationIsOwned, ErasedIsJoined, OneInserts, Live, Threads
<1>2. ASSUME NEW h \in Pipes PROVE SessionAgrees(h)
  <2>1. /\ pc[h] = "loop" /\ op[h] = "idle" /\ streamMap[h] = "none" /\ pool[h] = "absent"
        /\ inbox[h] = <<>> /\ asked[h] = NoMsg /\ tpc[h] = "over" /\ pipe[h] = "created"
    BY DEF Init, PSTInit, NamedPipeInit, Threads
  <2>2. PcAgrees(h) /\ MapAgrees(h) /\ PoolAgrees(h)
    BY <2>1 DEF PcAgrees, MapAgrees, PoolAgrees, Waiting, Works
  <2>3. InboxAgrees(h)
    <3>1. Len(inbox[h]) - 1 = -1 /\ 1 .. -1 = {}
      BY <2>1
    <3> QED BY <2>1, <3>1 DEF InboxAgrees
  <2>4. AskedAgrees(h) /\ ClientAgrees(h)
    BY <2>1 DEF AskedAgrees, ClientAgrees, Live
  <2> QED BY <2>2, <2>3, <2>4 DEF SessionAgrees
<1> QED BY <1>1, <1>2 DEF SessionInv

\* The agreement of the sessions, in every reachable state.
LEMMA SessionInvHolds == Spec => []SessionInv
  BY InitHasSessionInv, SessionStep, PTL DEF Spec

-----------------------------------------------------------------------------

\* Whoever's thread is about to erase an entry still has that instance.
LEMMA HelpedIsInFlight ==
    ASSUME NEW h \in Pipes, Helped(h)
    PROVE  InFlight(h)
BY DEF Helped, InFlight

\* handle finds its key in pool taken only while a detached disconnect_pipe has
\* taken the Session away and not yet the std::thread: without one, the insertion
\* never terminates the process, whatever the clients send.
THEOREM TerminationNeedsDetached == Spec => []TerminateNeedsDetached
<1>1. SessionInv => TerminateNeedsDetached
  <2> SUFFICES ASSUME SessionInv, NEW h \in Pipes, op[h] = "emplace", pool[h] # "absent"
               PROVE  InFlight(h)
    BY DEF TerminateNeedsDetached
  <2>1. PcAgrees(h) /\ PoolAgrees(h) /\ START # BREAK
    BY SessionTypes DEF SessionInv, SessionAgrees
  <2>2. Helped(h)
    BY <2>1 DEF PcAgrees, PoolAgrees
  <2> QED BY <2>2, HelpedIsInFlight
<1> QED BY <1>1, SessionInvHolds, PTL

\* No client gets the images another client asked for: a translation whose client
\* has left is over before onDisconnect lets the instance listen again, unless a
\* detached disconnect_pipe works on the same instance.
THEOREM ForeignTranslationsEnd == Spec => []NoForeignTranslation
<1>1. SessionInv => NoForeignTranslation
  BY HelpedIsInFlight DEF SessionInv, SessionAgrees, ClientAgrees, NoForeignTranslation
<1> QED BY <1>1, SessionInvHolds, PTL

\* After CMD_BREAK has been handled no translation runs for the client: stopHandler
\* has joined it, whatever came before it.
THEOREM PauseIsQuiet == Spec => []PausedClientIsQuiet
<1>1. SessionInv => PausedClientIsQuiet
  <2> SUFFICES ASSUME SessionInv, NEW h \in Pipes, ~InFlight(h), asked[h] = BREAK,
                      inbox[h] = <<>>, pc[h] \in {"read", "waitRead"}, Live(h)
               PROVE  FALSE
    BY DEF PausedClientIsQuiet
  <2>1. /\ AskedAgrees(h) /\ START # BREAK /\ NoMsg # BREAK
    BY SessionTypes DEF SessionInv, SessionAgrees
  <2>2. ~Helped(h) /\ pool[h] # "absent"
    BY HelpedIsInFlight, LiveHasEntry
  <2>3. pipe[h] # "closed"
    BY DEF SessionInv, PSTInv, ServedWhileReading, Served
  <2> QED BY <2>1, <2>2, <2>3 DEF AskedAgrees
<1> QED BY <1>1, SessionInvHolds, PTL

\* When stop() has returned, no server thread has left a translation or an entry
\* of pool behind.
THEOREM StopIsClean == Spec => []StopLeavesNothing
<1>1. SessionInv => StopLeavesNothing
  <2> SUFFICES ASSUME SessionInv, stopping = "done", NEW h \in Pipes, ~InFlight(h)
               PROVE  ~Live(h) /\ pool[h] = "absent"
    BY DEF StopLeavesNothing
  <2>1. pc[h] \in Waiting
    BY DEF SessionInv, PSTInv, StopPhases, Waiting
  <2> QED BY <2>1, WaitingIsClean, HelpedIsInFlight
<1> QED BY <1>1, SessionInvHolds, PTL

-----------------------------------------------------------------------------
(* A directory that does not end starts no detached threads. *)

\* A client that is sent images has asked for something.
LEMMA WatchedIsAsked ==
    ASSUME SessionInv, NEW h \in Pipes, Live(h), pipe[h] = "connected", ~Helped(h)
    PROVE  asked[h] # NoMsg
<1>0. /\ inbox[h] \in Seq(Msgs) /\ NoMsg \notin Msgs /\ Msgs = {START, BREAK}
  BY SessionTypes
<1>1. pool[h] # "absent"
  BY LiveHasEntry
<1>2. PoolAgrees(h) /\ AskedAgrees(h) /\ ClientAgrees(h)
  BY DEF SessionInv, SessionAgrees
<1>s. PICK s \in Seq(Msgs) : s = inbox[h]
  BY <1>0
<1>3. s # <<>> => asked[h] \in Msgs
  <2>1. s # <<>> => s[Len(s)] \in Msgs
    OBVIOUS
  <2> QED BY <1>2, <1>s, <2>1 DEF AskedAgrees
<1>4. s = <<>> => asked[h] \in Msgs
  BY <1>0, <1>1, <1>2, <1>s DEF PoolAgrees, AskedAgrees, ClientAgrees
<1> QED BY <1>0, <1>3, <1>4

\* Nobody but the server threads cleans up.
Alone ==
    /\ \A d \in Disconnectors : op[d] = "idle"
    /\ \A t \in Threads : op[t] # "dangling"
    /\ PoolEntriesAreUnique
    /\ NoUnrequestedImages

\* Without detached threads nobody else's entry is erased.
LEMMA AloneThreads ==
    ASSUME ~FilesEnd, SessionInv, Alone, Next
    PROVE  /\ \A d \in Disconnectors : op'[d] = "idle"
           /\ \A t \in Threads : op'[t] # "dangling"
<1>0. /\ op \in [Threads -> ServerPoints \cup DetachedPoints]
      /\ \A d \in Disconnectors : op[d] = "idle" /\ d \notin Pipes /\ d \in Threads
      /\ \A t \in Threads : op[t] # "dangling"
      /\ Pipes \subseteq Threads
  BY SessionTypes DEF Alone
<1>1. ASSUME NEW h \in Pipes, NEW o \in (ServerPoints \cup DetachedPoints) \ {"dangling"}, OpTo(h, o)
      PROVE  /\ \A d \in Disconnectors : op'[d] = "idle"
             /\ \A t \in Threads : op'[t] # "dangling"
  BY <1>0, <1>1 DEF OpTo
<1>2. ASSUME op' = op
      PROVE  /\ \A d \in Disconnectors : op'[d] = "idle"
             /\ \A t \in Threads : op'[t] # "dangling"
  BY <1>0, <1>2
<1> USE DEF ServerPoints, DetachedPoints, CleanupPoints
<1>3. ASSUME NEW h \in Pipes, Server(h)
      PROVE  /\ \A d \in Disconnectors : op'[d] = "idle"
             /\ \A t \in Threads : op'[t] # "dangling"
  <2>1. CASE ThreadStep(h) \/ HandleTerminates(h) \/ PoolDangling(h)
    BY <1>2, <2>1 DEF ThreadStep, HandleTerminates, PoolDangling, Crash, ownerVars
  <2>2. CASE Dispatch(h) \/ ThreadDisconnects(h)
    BY <1>1, <2>2 DEF Dispatch, ThreadDisconnects
  <2>3. CASE HandleRefused(h) \/ HandleChecked(h) \/ HandleSession(h) \/ HandleEmplace(h)
    BY <1>1, <2>3 DEF HandleRefused, HandleChecked, HandleSession, HandleEmplace
  <2>4. CASE StopHandlerLookup(h) \/ OnDisconnectLookup(h)
    BY <1>1, <2>4 DEF StopHandlerLookup, OnDisconnectLookup, LookupSession
  <2>5. CASE PoolFind(h) \/ PoolJoin(h)
    BY <1>1, <2>5 DEF PoolFind, PoolJoin
  <2>6. CASE PoolErase(h)
    <3>1. \A u \in Threads : u # h /\ op[u] # "idle" => InstanceOf(u) # InstanceOf(h)
      BY <1>0 DEF InstanceOf, Threads
    <3>2. \A u \in Threads : op'[u] = "idle" \/ op'[u] = op[u]
      BY <2>6, <3>1 DEF PoolErase
    <3> QED BY <1>0, <3>2
  <2> QED BY <1>3, <2>1, <2>2, <2>3, <2>4, <2>5, <2>6 DEF Server, Callback, Cleanup
<1>4. ASSUME NEW h \in Pipes, Translate(h) \/ Clients(h) PROVE op' = op
  BY <1>4 DEF Translate, TranslateNext, TranslateSend, TranslateCheck, TranslateEnd,
              Clients, ClientConnects, ClientAsks, ClientDisconnects, ownerVars
<1>5. ASSUME NEW d \in Disconnectors, Detached(d) PROVE FALSE
  BY <1>0, <1>5 DEF Detached, DetachedDisconnects, Cleanup, OnDisconnectLookup, LookupSession,
                    PoolFind, PoolJoin, PoolErase, PoolDangling
<1>6. ASSUME PoolRace \/ (\E h \in Pipes : TranslateThrows(h)) \/ Stop \/ Terminated PROVE op' = op
  BY <1>6 DEF PoolRace, TranslateThrows, Crash, Stop, StopStore, StopFlags, StopThreads, Terminated, vars, ownerVars
<1> QED BY <1>2, <1>3, <1>4, <1>5, <1>6 DEF Next

\* Without detached threads, no insertion meets an entry and every image is asked for.
LEMMA AloneStep == ~FilesEnd /\ SessionInv /\ Alone /\ [Next]_vars => Alone'
<1> SUFFICES ASSUME ~FilesEnd, SessionInv, Alone, Next PROVE Alone'
  BY DEF Alone, PoolEntriesAreUnique, NoUnrequestedImages, vars, ownerVars, clientVars
<1>0. /\ \A d \in Disconnectors : op[d] = "idle"
      /\ \A t \in Threads : op[t] # "dangling"
      /\ \A h \in Pipes : ~Helped(h) /\ ~(op[h] = "emplace" /\ pool[h] # "absent")
  <2>1. \A h \in Pipes : ~Helped(h)
    BY DEF Alone, Helped, Works
  <2>2. ASSUME NEW h \in Pipes, op[h] = "emplace", pool[h] # "absent" PROVE FALSE
    <3>1. PcAgrees(h) /\ PoolAgrees(h) /\ START # BREAK
      BY SessionTypes DEF SessionInv, SessionAgrees
    <3> QED BY <2>1, <2>2, <3>1 DEF PcAgrees, PoolAgrees
  <2> QED BY <2>1, <2>2 DEF Alone
<1>1. PoolEntriesAreUnique'
  <2>1. ASSUME NEW t \in Threads, Cleanup(t) PROVE crash' = crash
    BY <1>0, <2>1 DEF Cleanup, OnDisconnectLookup, LookupSession, PoolFind, PoolJoin, PoolErase,
                      PoolDangling
  <2>2. crash' \in {crash, "race", "exception"}
    <3>1. ASSUME NEW h \in Pipes, Server(h) PROVE crash' = crash
      <4>1. CASE Cleanup(h)
        BY <2>1, <4>1 DEF Threads
      <4> QED BY <1>0, <3>1, <4>1 DEF Server, ThreadStep, Dispatch, ThreadDisconnects, Callback, HandleRefused,
              HandleChecked, HandleSession, HandleEmplace, HandleTerminates, StopHandlerLookup,
              LookupSession, ownerVars
    <3>2. ASSUME NEW h \in Pipes, Translate(h) \/ Clients(h) PROVE crash' = crash
      BY <3>2 DEF Translate, TranslateNext, TranslateSend, TranslateCheck, TranslateEnd,
                  Clients, ClientConnects, ClientAsks, ClientDisconnects, ownerVars
    <3>3. ASSUME NEW d \in Disconnectors, Detached(d) PROVE crash' = crash
      BY <2>1, <3>3 DEF Detached, DetachedDisconnects, Threads
    <3>4. ASSUME PoolRace \/ (\E h \in Pipes : TranslateThrows(h)) \/ Stop \/ Terminated
          PROVE  crash' \in {crash, "race", "exception"}
      BY <3>4 DEF PoolRace, TranslateThrows, Crash, Stop, StopStore, StopFlags, StopThreads, Terminated, vars, ownerVars
    <3> QED BY <3>1, <3>2, <3>3, <3>4 DEF Next
  <2> QED BY <2>2 DEF Alone, PoolEntriesAreUnique
<1>2. NoUnrequestedImages'
  <2>0. /\ asked \in [Pipes -> Msgs \cup {NoMsg}] /\ sent \in [Pipes -> SUBSET {"IMGDATA"}]
        /\ NoUnrequestedImages /\ NoMsg \notin Msgs /\ Msgs = {START, BREAK}
    BY SessionTypes DEF Alone, SessionInv, OwnInv, TypeOK, OwnerTypeOK
  <2>1. ASSUME asked' = asked, sent' = sent PROVE NoUnrequestedImages'
    BY <2>0, <2>1 DEF NoUnrequestedImages
  <2>2. ASSUME NEW h \in Pipes, ClientLeaves(h) PROVE NoUnrequestedImages'
    BY <2>0, <2>2 DEF NoUnrequestedImages, ClientLeaves
  <2>3. ASSUME NEW t \in Threads, Cleanup(t) PROVE NoUnrequestedImages'
    BY <2>1, <2>3 DEF Cleanup, OnDisconnectLookup, LookupSession, PoolFind, PoolJoin, PoolErase,
                      PoolDangling, Crash, clientVars
  <2>4. ASSUME NEW h \in Pipes, Server(h) PROVE NoUnrequestedImages'
    <3>1. CASE Cleanup(h)
      BY <2>3, <3>1 DEF Threads
    <3>2. CASE ThreadDisconnects(h)
      BY <2>2, <3>2 DEF ThreadDisconnects
    <3> QED BY <2>1, <2>4, <3>1, <3>2 DEF Server, ThreadStep, Dispatch, Callback, HandleRefused,
            HandleChecked, HandleSession, HandleEmplace, HandleTerminates, StopHandlerLookup,
            LookupSession, Crash, ownerVars, clientVars
  <2>5. ASSUME NEW h \in Pipes, Translate(h) PROVE NoUnrequestedImages'
    <3>1. CASE TranslateSend(h) /\ pipe[h] = "connected"
      <4>1. /\ Live(h) /\ asked' = asked /\ sent' = [sent EXCEPT ![h] = @ \cup {"IMGDATA"}]
        BY <3>1 DEF TranslateSend, Live
      <4>2. asked[h] # NoMsg
        BY <1>0, <3>1, <4>1, WatchedIsAsked
      <4> QED BY <2>0, <4>1, <4>2 DEF NoUnrequestedImages
    <3> QED BY <2>1, <2>5, <3>1 DEF Translate, TranslateNext, TranslateSend, TranslateCheck,
               TranslateEnd, clientVars
  <2>6. ASSUME NEW h \in Pipes, Clients(h) PROVE NoUnrequestedImages'
    <3>1. CASE ClientConnects(h)
      BY <2>1, <3>1 DEF ClientConnects, ownerVars, clientVars
    <3>2. CASE ClientAsks(h)
      <4>1. asked'[h] # NoMsg /\ sent' = sent /\ \A g \in Pipes \ {h} : asked'[g] = asked[g]
        BY <2>0, <3>2 DEF ClientAsks
      <4> QED BY <2>0, <4>1 DEF NoUnrequestedImages
    <3>3. CASE ClientDisconnects(h)
      BY <2>2, <3>3 DEF ClientDisconnects
    <3> QED BY <2>6, <3>1, <3>2, <3>3 DEF Clients
  <2>7. ASSUME NEW d \in Disconnectors, Detached(d) PROVE FALSE
    BY <1>0, <2>7 DEF Detached, DetachedDisconnects, Cleanup, OnDisconnectLookup, LookupSession,
                      PoolFind, PoolJoin, PoolErase, PoolDangling
  <2>8. ASSUME PoolRace \/ (\E h \in Pipes : TranslateThrows(h)) \/ Stop \/ Terminated
        PROVE  NoUnrequestedImages'
    BY <2>1, <2>8 DEF PoolRace, TranslateThrows, Crash, Stop, StopStore, StopFlags, StopThreads, Terminated, vars,
                      ownerVars, clientVars
  <2> QED BY <2>4, <2>5, <2>6, <2>7, <2>8 DEF Next
<1> QED BY <1>1, <1>2, AloneThreads DEF Alone

\* The same in every reachable state.
LEMMA AloneHolds ==
    ASSUME ~FilesEnd
    PROVE  Spec => []Alone
<1>1. Init => Alone
  BY DEF Init, Alone, PoolEntriesAreUnique, NoUnrequestedImages, Threads
<1>2. SessionInv /\ Alone /\ [Next]_vars => Alone'
  BY AloneStep
<1> QED BY <1>1, <1>2, SessionInvHolds, PTL DEF Spec

\* If the directory does not end while somebody watches, pool.emplace never meets
\* an occupied key and no iterator into pool dangles, whatever clients and stop() do.
THEOREM EntriesAreUnique ==
    ASSUME ~FilesEnd
    PROVE  Spec => []PoolEntriesAreUnique
<1>1. Alone => PoolEntriesAreUnique
  BY DEF Alone
<1> QED BY <1>1, AloneHolds, PTL

\* ... and a client that has asked for nothing gets nothing, whomever its instance
\* served before.
THEOREM ImagesAreRequested ==
    ASSUME ~FilesEnd
    PROVE  Spec => []NoUnrequestedImages
<1>1. Alone => NoUnrequestedImages
  BY DEF Alone
<1> QED BY <1>1, AloneHolds, PTL

-----------------------------------------------------------------------------
(* The service the clients see, with a directory that does not end *)

\* The server thread disconnects a client that is gone and has nothing left to read,
\* unless it was told to stop; a Session says "stream" when its translation starts,
\* and something else only while a BREAK is handled or after stop() has begun.
ServiceAgrees(h) ==
    /\ pc[h] = "disconnect" =>
          stopEvt[h] \/ (pipe[h] \in {"closing", "disconnected"} /\ inbox[h] = <<>>)
    /\ op[h] = "emplace" => streamMap[h] = "stream"
    /\ pc[h] = "handler" /\ op[h] \in Works => streamMap[h] # "none"
    /\ Live(h) /\ streamMap[h] = "stopped" => shutdown \/ (pc[h] = "handler" /\ cmd[h] = BREAK)

ServiceInv ==
    /\ stopping # "no" => mainAt = "overall"
    /\ \A h \in Pipes : stopEvt[h] => stopping # "no"
    /\ \A h \in Pipes : ServiceAgrees(h)

\* What a server thread, a translation or a client of h leaves alone.
Elsewhere(h) ==
    /\ UNCHANGED <<stopping, stopEvt, mainAt>>
    /\ \A g \in Pipes \ {h} :
          /\ pc'[g] = pc[g] /\ cmd'[g] = cmd[g] /\ pipe'[g] = pipe[g] /\ inbox'[g] = inbox[g]
          /\ streamMap'[g] = streamMap[g] /\ tpc'[g] = tpc[g] /\ op'[g] = op[g]

\* An instance nothing of which changes still agrees with the service...
LEMMA ServiceFrame ==
    ASSUME NEW h \in Pipes, ServiceInv, Elsewhere(h), ServiceAgrees(h)'
    PROVE  ServiceInv'
<1>1. ASSUME NEW g \in Pipes, g # h PROVE ServiceAgrees(g)'
  <2>1. ServiceAgrees(g)
    BY DEF ServiceInv
  <2>2. /\ pc'[g] = pc[g] /\ cmd'[g] = cmd[g] /\ pipe'[g] = pipe[g] /\ inbox'[g] = inbox[g]
        /\ streamMap'[g] = streamMap[g] /\ tpc'[g] = tpc[g] /\ op'[g] = op[g]
        /\ stopEvt' = stopEvt /\ mainAt' = mainAt
    BY <1>1 DEF Elsewhere
  <2> QED BY <2>1, <2>2 DEF ServiceAgrees, Live, shutdown
<1> QED BY <1>1 DEF ServiceInv, Elsewhere

\* ... and a step that changes nothing a client sees is none of the service.
LEMMA ServiceStutters ==
    ASSUME UNCHANGED <<pipe, inbox, cmd, tpc, sent>>, shutdown' = shutdown
    PROVE  UNCHANGED Service!svcVars
BY DEF Service!svcVars, Live

\* Only stop() makes the event and the flag of a server thread say so.
LEMMA StoppedIsShutdown ==
    ASSUME SessionInv, ServiceInv, NEW h \in Pipes, stopEvt[h] \/ ~running[h]
    PROVE  shutdown
<1>1. stopping # "no"
  BY DEF ServiceInv, SessionInv, PSTInv, StopPhases
<1> QED BY <1>1 DEF ServiceInv, shutdown

\* The server thread outside of the callbacks.
LEMMA ThreadStepServes ==
    ASSUME SessionInv, ServiceInv, NEW h \in Pipes, ThreadStep(h)
    PROVE  ServiceInv' /\ [Service!SvcNext]_(Service!svcVars)
<1>0. /\ pc \in [Pipes -> Points] /\ cmd \in [Pipes -> Msgs \cup {NoMsg}]
      /\ pipe \in [Pipes -> PipeStates] /\ inbox \in [Pipes -> Seq(Msgs)]
  BY SessionTypes
<1>1. UNCHANGED ownerVars
  BY DEF ThreadStep
<1>2. /\ cmd' = cmd /\ UNCHANGED <<stopping, stopEvt>>
      /\ \A g \in Pipes \ {h} : pc'[g] = pc[g] /\ pipe'[g] = pipe[g] /\ inbox'[g] = inbox[g]
  BY <1>0 DEF ThreadStep, LoopTest, ConnectPending, ConnectAlready, ConnectNoData, ConnectDone,
              ConnectTimeout, ResetAfterTimeout, ReadIssue, ReadRefused, ReadError, StopObserved,
              LeavePool, CloseContext, Go, Listen, pipeVars
<1>3. Elsewhere(h)
  BY <1>1, <1>2 DEF Elsewhere, ownerVars, dataVars
<1>4. ServiceAgrees(h) /\ PcAgrees(h) /\ InboxAgrees(h)
  BY DEF ServiceInv, SessionInv, SessionAgrees
<1>5. /\ pc[h] # "handler" /\ pc'[h] # "handler"
      /\ pc'[h] = "disconnect" =>
            stopEvt[h] \/ (pipe'[h] \in {"closing", "disconnected"} /\ inbox'[h] = <<>>)
  <2>1. CASE ReadRefused(h)
    BY <1>0, <1>4, <2>1 DEF ReadRefused, ReadFails, Go, pipeVars, InboxAgrees
  <2>2. CASE StopObserved(h)
    BY <1>0, <2>2 DEF StopObserved, Go
  <2> QED BY <1>0, <2>1, <2>2 DEF ThreadStep, LoopTest, ConnectPending, ConnectAlready,
             ConnectNoData, ConnectDone, ConnectTimeout, ResetAfterTimeout, ReadIssue, ReadError,
             LeavePool, CloseContext, Go
<1>6. /\ op' = op /\ streamMap' = streamMap /\ tpc' = tpc /\ mainAt' = mainAt /\ sent' = sent
  BY <1>1 DEF ownerVars, dataVars, clientVars
<1>7. ServiceAgrees(h)'
  BY <1>2, <1>4, <1>5, <1>6 DEF ServiceAgrees, Live, shutdown
<1>8. ASSUME pipe'[h] = "connected" <=> pipe[h] = "connected", inbox'[h] = inbox[h]
      PROVE  UNCHANGED Service!svcVars
  <2>1. inbox' = inbox
    BY <1>0, <1>2, <1>8 DEF ThreadStep, LoopTest, ConnectPending, ConnectAlready, ConnectNoData,
              ConnectDone, ConnectTimeout, ResetAfterTimeout, ReadIssue, ReadRefused, ReadError,
              StopObserved, LeavePool, CloseContext, Go, Listen, pipeVars
  <2>2. \A g \in Pipes : pipe'[g] = "connected" <=> pipe[g] = "connected"
    BY <1>2, <1>8
  <2> QED BY <1>2, <1>6, <2>1, <2>2 DEF Service!svcVars, Live, shutdown
<1>9. [Service!SvcNext]_(Service!svcVars)
  <2>1. CASE CloseContext(h)
    <3>1. shutdown
      BY <2>1, StoppedIsShutdown DEF CloseContext, SessionInv, PSTInv, LeavingIsStopped
    <3>2. cmd[h] = NoMsg
      BY <1>5 DEF SessionInv, PSTInv, PSTTypeOK
    <3>3. /\ pipe' = [pipe EXCEPT ![h] = "closed"] /\ inbox' = [inbox EXCEPT ![h] = <<>>]
      BY <2>1 DEF CloseContext
    <3>4. Service!Drops(h)
      BY <1>0, <1>2, <1>6, <3>1, <3>2, <3>3 DEF Service!Drops, Live, shutdown
    <3> QED BY <3>4 DEF Service!SvcNext
  <2>2. CASE ConnectPending(h)
    <3>1. /\ pipe[h] # "connected" /\ pipe'[h] = "listening" /\ inbox' = inbox
      BY <1>0, <2>2 DEF ConnectPending, Listen
    <3> QED BY <1>8, <3>1
  <2>3. CASE ~(CloseContext(h) \/ ConnectPending(h))
    <3>1. pipe' = pipe /\ inbox' = inbox
      BY <2>3 DEF ThreadStep, LoopTest, ConnectAlready, ConnectNoData, ConnectDone,
              ConnectTimeout, ResetAfterTimeout, ReadIssue, ReadRefused, ReadError, StopObserved,
              LeavePool, pipeVars
    <3> QED BY <1>8, <3>1
  <2> QED BY <2>1, <2>2, <2>3
<1> QED BY <1>3, <1>7, <1>9, ServiceFrame

\* A command is taken, and what has nothing left to take is disconnected.
LEMMA DispatchServes ==
    ASSUME SessionInv, ServiceInv, NEW h \in Pipes, Dispatch(h) \/ ThreadDisconnects(h)
    PROVE  ServiceInv' /\ [Service!SvcNext]_(Service!svcVars)
<1>0. /\ pc \in [Pipes -> Points] /\ cmd \in [Pipes -> Msgs \cup {NoMsg}]
      /\ pipe \in [Pipes -> PipeStates] /\ inbox \in [Pipes -> Seq(Msgs)]
      /\ op \in [Threads -> ServerPoints \cup DetachedPoints] /\ h \in Threads /\ Pipes \subseteq Threads
      /\ sent \in [Pipes -> SUBSET {"IMGDATA"}]
  BY SessionTypes DEF SessionInv, OwnInv, TypeOK, OwnerTypeOK
<1>1. /\ UNCHANGED <<streamMap, tpc, mainAt, stopping, stopEvt>>
      /\ \A g \in Pipes \ {h} : op'[g] = op[g]
      /\ op'[h] \notin {"emplace"} \cup Works
  BY <1>0 DEF Dispatch, ThreadDisconnects, ReadMessage, DisconnectPipe, OpTo, dataVars, Works
<1>2. Elsewhere(h)
  BY <1>0, <1>1 DEF Elsewhere, Dispatch, ThreadDisconnects, ReadMessage, DisconnectPipe,
                    DisconnectNamedPipe, Go
<1>3. ServiceAgrees(h)
  BY DEF ServiceInv
<1>4. pc'[h] # "disconnect" /\ pc[h] # "handler"
  BY <1>0 DEF Dispatch, ThreadDisconnects, ReadMessage, DisconnectPipe, Go
<1>5. ServiceAgrees(h)'
  BY <1>1, <1>3, <1>4 DEF ServiceAgrees, Live, shutdown
<1>6. [Service!SvcNext]_(Service!svcVars)
  <2>0. cmd[h] = NoMsg
    BY <1>4 DEF SessionInv, PSTInv, PSTTypeOK
  <2>1. CASE Dispatch(h)
    <3>1. /\ inbox[h] # <<>> /\ cmd' = [cmd EXCEPT ![h] = Head(inbox[h])]
          /\ inbox' = [inbox EXCEPT ![h] = Tail(@)] /\ pipe' = pipe /\ sent' = sent
      BY <2>1 DEF Dispatch, ReadMessage, Readable, clientVars
    <3>2. Service!Takes(h)
      BY <1>1, <2>0, <3>1 DEF Service!Takes, Live, shutdown
    <3> QED BY <3>2 DEF Service!SvcNext
  <2>2. CASE ThreadDisconnects(h)
    <3>1. /\ inbox' = [inbox EXCEPT ![h] = <<>>] /\ cmd' = cmd
          /\ pipe'[h] # "connected" /\ \A g \in Pipes \ {h} : pipe'[g] = pipe[g]
          /\ \A g \in Pipes \ {h} : sent'[g] = sent[g]
      BY <1>0, <2>2 DEF ThreadDisconnects, DisconnectPipe, DisconnectNamedPipe, ClientLeaves
    <3>2. pc[h] = "disconnect"
      BY <2>2 DEF ThreadDisconnects, DisconnectPipe
    <3>3. CASE shutdown
      <4>1. Service!Drops(h)
        BY <1>0, <1>1, <2>0, <3>1, <3>3 DEF Service!Drops, Live, shutdown
      <4> QED BY <4>1 DEF Service!SvcNext
    <3>4. CASE ~shutdown
      <4>1. pipe[h] # "connected" /\ inbox[h] = <<>>
        BY <1>3, <3>2, <3>4, StoppedIsShutdown DEF ServiceAgrees
      <4>2. inbox' = inbox
        BY <1>0, <3>1, <4>1
      <4> QED BY <1>1, <3>1, <4>1, <4>2 DEF Service!svcVars, Live, shutdown
    <3> QED BY <3>3, <3>4
  <2> QED BY <2>1, <2>2
<1> QED BY <1>2, <1>5, <1>6, ServiceFrame

\* The callback of a server thread returns, and the command has been carried out.
LEMMA ReturnServes ==
    ASSUME SessionInv, NEW h \in Pipes, Return(h), op[h] \in Works \cup {"brk", "lost"},
           pc[h] = "handler" => ~Live(h),
           UNCHANGED <<tpc, mainAt, sent>>
    PROVE  /\ [Service!SvcNext]_(Service!svcVars)
           /\ UNCHANGED <<pipe, inbox, stopEvt, stopping>>
           /\ pc'[h] \notin {"handler", "disconnect"}
           /\ \A g \in Pipes \ {h} : pc'[g] = pc[g] /\ cmd'[g] = cmd[g]
<1>0. /\ pc \in [Pipes -> Points] /\ cmd \in [Pipes -> Msgs \cup {NoMsg}]
  BY SessionTypes
<1>1. PcAgrees(h)
  BY DEF SessionInv, SessionAgrees
<1>2. HandlerReturn(h) \/ OnDisconnectReturn(h)
  BY DEF Return
<1>3. CASE HandlerReturn(h)
  <2>1. /\ pc[h] = "handler" /\ cmd' = [cmd EXCEPT ![h] = NoMsg]
        /\ pc' = [pc EXCEPT ![h] = "read"] /\ UNCHANGED <<pipe, inbox, stopEvt, stopping>>
    BY <1>3 DEF HandlerReturn, Go, pipeVars
  <2>2. cmd[h] = BREAK
    BY <1>1, <2>1 DEF PcAgrees
  <2>3. Service!Pauses(h)
    BY <2>1, <2>2 DEF Service!Pauses, Service!Done, Live, shutdown
  <2> QED BY <1>0, <2>1, <2>3 DEF Service!SvcNext
<1>4. CASE OnDisconnectReturn(h)
  <2>1. /\ pc' = [pc EXCEPT ![h] = "loop"] /\ cmd' = cmd
        /\ UNCHANGED <<pipe, inbox, stopEvt, stopping>>
    BY <1>4 DEF OnDisconnectReturn, Go, pipeVars
  <2> QED BY <1>0, <2>1, ServiceStutters DEF shutdown
<1> QED BY <1>2, <1>3, <1>4

\* handle: a translation starts, or the server closes.
LEMMA HandleServes ==
    ASSUME SessionInv, ServiceInv, NEW h \in Pipes,
           HandleRefused(h) \/ HandleChecked(h) \/ HandleSession(h) \/ HandleEmplace(h)
    PROVE  ServiceInv' /\ [Service!SvcNext]_(Service!svcVars)
<1>0. /\ pc \in [Pipes -> Points] /\ cmd \in [Pipes -> Msgs \cup {NoMsg}]
      /\ op \in [Threads -> ServerPoints \cup DetachedPoints] /\ h \in Threads /\ Pipes \subseteq Threads
      /\ streamMap \in [Pipes -> {"none", "stream", "stopped"}]
      /\ tpc \in [Pipes -> {"over", "top", "send", "check"}]
      /\ START # BREAK
  BY SessionTypes
<1>1. PcAgrees(h) /\ ServiceAgrees(h)
  BY DEF SessionInv, SessionAgrees, ServiceInv
<1>2. pc[h] = "handler" /\ cmd[h] = START
  BY <1>1 DEF HandleRefused, HandleChecked, HandleSession, HandleEmplace, PcAgrees
<1>3. CASE HandleRefused(h) \/ HandleEmplace(h)
  <2>1. /\ pc' = [pc EXCEPT ![h] = "read"] /\ cmd' = [cmd EXCEPT ![h] = NoMsg]
        /\ op' = [op EXCEPT ![h] = "idle"]
        /\ UNCHANGED <<pipe, inbox, stopEvt, stopping, streamMap, mainAt, sent>>
    BY <1>3 DEF HandleRefused, HandleEmplace, HandlerReturn, Go, OpTo, pipeVars, dataVars, clientVars
  <2>2. CASE HandleRefused(h)
    <3>1. tpc' = tpc /\ shutdown
      BY <2>2 DEF HandleRefused, dataVars
    <3>2. Service!Refuses(h)
      BY <1>2, <2>1, <3>1 DEF Service!Refuses, Service!Done, Live, shutdown
    <3>3. Elsewhere(h) /\ ServiceAgrees(h)'
      BY <1>0, <1>1, <2>1, <3>1 DEF Elsewhere, ServiceAgrees, Live, shutdown
    <3> QED BY <3>2, <3>3, ServiceFrame DEF Service!SvcNext
  <2>3. CASE HandleEmplace(h)
    <3>1. tpc' = [tpc EXCEPT ![h] = "top"] /\ ~Live(h) /\ op[h] = "emplace"
      BY <2>3, LiveHasEntry DEF HandleEmplace
    <3>2. Service!Starts(h)
      BY <1>0, <1>2, <2>1, <3>1 DEF Service!Starts, Service!Done, Live, shutdown
    <3>3. Elsewhere(h) /\ ServiceAgrees(h)'
      BY <1>0, <1>1, <2>1, <3>1 DEF Elsewhere, ServiceAgrees, Live, shutdown
    <3> QED BY <3>2, <3>3, ServiceFrame DEF Service!SvcNext
  <2> QED BY <1>3, <2>2, <2>3
<1>4. CASE HandleChecked(h) \/ HandleSession(h)
  <2>1. UNCHANGED <<pc, cmd, pipe, inbox, stopEvt, stopping, tpc, mainAt, sent>>
    BY <1>4 DEF HandleChecked, HandleSession, pstVars, pipeVars, threadVars, dataVars, clientVars
  <2>2. /\ \/ op' = [op EXCEPT ![h] = "startLock"] /\ streamMap' = streamMap
           \/ op' = [op EXCEPT ![h] = "emplace"] /\ streamMap' = [streamMap EXCEPT ![h] = "stream"]
    BY <1>4 DEF HandleChecked, HandleSession, OpTo, dataVars
  <2>3. Elsewhere(h) /\ ServiceAgrees(h)'
    BY <1>0, <1>1, <2>1, <2>2 DEF Elsewhere, ServiceAgrees, Live, shutdown, Works
  <2> QED BY <2>1, <2>3, ServiceFrame, ServiceStutters DEF shutdown
<1> QED BY <1>3, <1>4

\* stopHandler and onDisconnect: a translation is joined before its command is done.
LEMMA CleanupServes ==
    ASSUME SessionInv, ServiceInv, NEW h \in Pipes, StopHandlerLookup(h) \/ Cleanup(h),
           op[h] # "dangling", ~Helped(h)
    PROVE  ServiceInv' /\ [Service!SvcNext]_(Service!svcVars)
<1>0. /\ pc \in [Pipes -> Points] /\ cmd \in [Pipes -> Msgs \cup {NoMsg}]
      /\ op \in [Threads -> ServerPoints \cup DetachedPoints] /\ h \in Threads /\ Pipes \subseteq Threads
      /\ streamMap \in [Pipes -> {"none", "stream", "stopped"}] /\ InstanceOf(h) = h
      /\ \A g \in Pipes : InstanceOf(g) = g
  BY SessionTypes DEF InstanceOf
<1>1. PcAgrees(h) /\ ServiceAgrees(h) /\ MapAgrees(h) /\ ClientAgrees(h)
  BY DEF SessionInv, SessionAgrees, ServiceInv
<1>2. UNCHANGED <<tpc, mainAt, sent>>
  BY DEF StopHandlerLookup, Cleanup, OnDisconnectLookup, LookupSession, PoolFind, PoolJoin,
         PoolErase, PoolDangling, Crash, dataVars, clientVars
<1>3. ASSUME op'[h] = "find" \/ op'[h] = "join" \/ op'[h] = "erase",
             UNCHANGED pstVars, \A g \in Pipes \ {h} : op'[g] = op[g] /\ streamMap'[g] = streamMap[g],
             pc[h] = "handler" => streamMap'[h] # "none",
             streamMap'[h] = "stopped" => streamMap[h] = "stopped" \/ op[h] = "brk"
      PROVE  ServiceInv' /\ [Service!SvcNext]_(Service!svcVars)
  <2>1. UNCHANGED <<pc, cmd, pipe, inbox, stopEvt, stopping>>
    BY <1>3 DEF pstVars, pipeVars, threadVars
  <2>2. op[h] = "brk" => pc[h] = "handler" /\ cmd[h] = BREAK
    BY <1>1 DEF PcAgrees
  <2>3. ServiceAgrees(h)'
    BY <1>1, <1>2, <1>3, <2>1, <2>2 DEF ServiceAgrees, Live, shutdown
  <2>4. Elsewhere(h)
    BY <1>2, <1>3, <2>1 DEF Elsewhere
  <2> QED BY <1>2, <2>1, <2>3, <2>4, ServiceFrame, ServiceStutters DEF shutdown
<1>4. ASSUME op'[h] = "idle", Return(h), op[h] \in Works \cup {"brk", "lost"},
             pc[h] = "handler" => ~Live(h), streamMap' = streamMap,
             \A g \in Pipes \ {h} : op'[g] = op[g]
      PROVE  ServiceInv' /\ [Service!SvcNext]_(Service!svcVars)
  <2>1. /\ [Service!SvcNext]_(Service!svcVars)
        /\ UNCHANGED <<pipe, inbox, stopEvt, stopping>>
        /\ pc'[h] \notin {"handler", "disconnect"}
        /\ \A g \in Pipes \ {h} : pc'[g] = pc[g] /\ cmd'[g] = cmd[g]
    BY <1>2, <1>4, ReturnServes
  <2>2. Live(h) /\ streamMap[h] = "stopped" => shutdown
    BY <1>1, <1>4 DEF ServiceAgrees
  <2>3. ServiceAgrees(h)'
    BY <1>2, <1>4, <2>1, <2>2 DEF ServiceAgrees, Live, shutdown
  <2>4. Elsewhere(h)
    BY <1>2, <1>4, <2>1 DEF Elsewhere
  <2> QED BY <2>1, <2>3, <2>4, ServiceFrame
<1>5. ASSUME NEW value \in {"none", "stopped"}, NEW point \in {"brk", "lost"},
             value = "none" <=> point = "lost", LookupSession(h, point, value)
      PROVE  ServiceInv' /\ [Service!SvcNext]_(Service!svcVars)
  <2>1. op[h] = point
    BY <1>5 DEF LookupSession
  <2>2. CASE streamMap[h] # "none"
    <3>1. /\ streamMap' = [streamMap EXCEPT ![h] = value] /\ op' = [op EXCEPT ![h] = "find"]
          /\ UNCHANGED pstVars
      BY <1>0, <1>5, <2>2 DEF LookupSession, OpTo
    <3>2. op[h] = "lost" => pc[h] = "onDisconnect"
      BY <1>1 DEF PcAgrees
    <3> QED BY <1>0, <1>3, <1>5, <2>1, <3>1, <3>2
  <2>3. CASE streamMap[h] = "none"
    <3>1. op' = [op EXCEPT ![h] = "idle"] /\ Return(h) /\ streamMap' = streamMap
      BY <1>0, <1>5, <2>3 DEF LookupSession, OpTo
    <3>2. pc[h] = "handler" => ~Live(h)
      <4>1. ASSUME pc[h] = "handler", Live(h) PROVE FALSE
        <5>1. pool[h] # "absent" /\ op[h] = "brk"
          BY <1>1, <2>1, <4>1, LiveHasEntry DEF PcAgrees
        <5> QED BY <1>1, <2>3, <5>1 DEF MapAgrees, Works
      <4> QED BY <4>1
    <3> QED BY <1>0, <1>4, <2>1, <3>1, <3>2
  <2> QED BY <2>2, <2>3
<1>6. CASE PoolFind(h)
  <2>1. op[h] = "find" /\ streamMap' = streamMap
    BY <1>6 DEF PoolFind, dataVars
  <2>2. CASE pool[h] # "absent"
    <3>1. op' = [op EXCEPT ![h] = "join"] /\ UNCHANGED pstVars
      BY <1>0, <1>6, <2>2 DEF PoolFind, OpTo
    <3> QED BY <1>0, <1>1, <1>3, <2>1, <3>1 DEF ServiceAgrees, Works
  <2>3. CASE pool[h] = "absent"
    <3>1. op' = [op EXCEPT ![h] = "idle"] /\ Return(h)
      BY <1>0, <1>6, <2>3 DEF PoolFind, OpTo
    <3> QED BY <1>0, <1>4, <2>1, <2>3, <3>1, LiveHasEntry DEF Works
  <2> QED BY <2>2, <2>3
<1>7. CASE PoolJoin(h)
  <2>1. op[h] = "join" /\ streamMap' = streamMap /\ op' = [op EXCEPT ![h] = "erase"] /\ UNCHANGED pstVars
    BY <1>7 DEF PoolJoin, OpTo
  <2> QED BY <1>0, <1>1, <1>3, <2>1 DEF ServiceAgrees, Works
<1>8. CASE PoolErase(h)
  <2>1. /\ op[h] = "erase" /\ Return(h) /\ streamMap' = streamMap
        /\ op'[h] = "idle" /\ \A g \in Pipes \ {h} : op'[g] = op[g]
    BY <1>0, <1>8 DEF PoolErase
  <2>2. ~Live(h)
    <3>1. pool[h] = "joined"
      BY <1>0, <2>1 DEF SessionInv, OwnInv, Owned, ErasedIsJoined
    <3> QED BY <3>1 DEF SessionInv, OwnInv, Owned, LiveTranslationIsOwned
  <2> QED BY <1>4, <2>1, <2>2 DEF Works
<1>9. CASE PoolDangling(h)
  BY <1>9 DEF PoolDangling
<1> QED BY <1>5, <1>6, <1>7, <1>8, <1>9 DEF StopHandlerLookup, OnDisconnectLookup, Cleanup

\* A translation goes on until it is told not to.
LEMMA TranslateServes ==
    ASSUME ~FilesEnd, SessionInv, ServiceInv, NEW h \in Pipes, Translate(h), ~Helped(h)
    PROVE  ServiceInv' /\ [Service!SvcNext]_(Service!svcVars)
<1>0. /\ tpc \in [Pipes -> {"over", "top", "send", "check"}]
      /\ streamMap \in [Pipes -> {"none", "stream", "stopped"}]
      /\ sent \in [Pipes -> SUBSET {"IMGDATA"}]
  BY SessionTypes DEF SessionInv, OwnInv, TypeOK, OwnerTypeOK
<1>1. /\ UNCHANGED <<pc, cmd, pipe, inbox, stopEvt, stopping, streamMap, op, mainAt>>
      /\ \A g \in Pipes \ {h} : tpc'[g] = tpc[g]
      /\ Live(h)
  BY <1>0 DEF Translate, TranslateNext, TranslateSend, TranslateCheck, TranslateEnd,
              pstVars, pipeVars, threadVars, Live
<1>2. PcAgrees(h) /\ MapAgrees(h) /\ ClientAgrees(h) /\ ServiceAgrees(h)
  BY DEF SessionInv, SessionAgrees, ServiceInv
<1>3. Elsewhere(h) /\ ServiceAgrees(h)'
  BY <1>1, <1>2 DEF Elsewhere, ServiceAgrees, Live, shutdown
<1>4. CASE sent' = sent /\ tpc'[h] # "over"
  <2>1. \A g \in Pipes : Live(g)' <=> Live(g)
    BY <1>1, <1>4 DEF Live
  <2> QED BY <1>1, <1>3, <1>4, <2>1, ServiceFrame DEF Service!svcVars, shutdown
<1>5. CASE sent' = sent /\ tpc'[h] = "over"
  <2>1. cmd[h] = BREAK \/ pipe[h] # "connected" \/ shutdown
    <3>1. CASE TranslateNext(h)
      BY <1>0, <1>5, <3>1 DEF TranslateNext
    <3>2. CASE TranslateCheck(h)
      <4>1. streamMap[h] # "stream"
        BY <1>0, <1>5, <3>2 DEF TranslateCheck
      <4>2. CASE streamMap[h] = "stopped"
        BY <1>1, <1>2, <4>2 DEF ServiceAgrees
      <4>3. CASE streamMap[h] = "none"
        <5>1. pool[h] # "absent"
          BY <1>1, LiveHasEntry
        <5>2. op[h] \in Works
          BY <1>2, <4>3, <5>1 DEF MapAgrees
        <5>3. pc[h] \in {"handler", "onDisconnect"}
          BY <1>2, <5>2 DEF PcAgrees, Works
        <5>4. pc[h] = "onDisconnect"
          BY <1>2, <4>3, <5>2, <5>3 DEF ServiceAgrees
        <5> QED BY <1>2, <5>4 DEF ClientAgrees
      <4> QED BY <1>0, <4>1, <4>2, <4>3
    <3>3. CASE TranslateSend(h)
      BY <1>0, <1>5, <3>3 DEF TranslateSend
    <3> QED BY <3>1, <3>2, <3>3 DEF Translate, TranslateEnd
  <2>2. Service!Ends(h)
    BY <1>1, <1>5, <2>1 DEF Service!Ends, Live, shutdown
  <2> QED BY <1>3, <2>2, ServiceFrame DEF Service!SvcNext
<1>6. CASE sent' # sent
  <2>1. /\ TranslateSend(h) /\ pipe[h] = "connected"
        /\ sent' = [sent EXCEPT ![h] = @ \cup {"IMGDATA"}] /\ tpc' = [tpc EXCEPT ![h] = "check"]
    BY <1>6 DEF Translate, TranslateNext, TranslateSend, TranslateCheck, TranslateEnd, clientVars
  <2>2. Service!GivesImage(h)
    BY <1>0, <1>1, <2>1 DEF Service!GivesImage, Live, shutdown
  <2> QED BY <1>3, <2>2, ServiceFrame DEF Service!SvcNext
<1> QED BY <1>4, <1>5, <1>6

\* A client comes to an instance that is done with the one before.
LEMMA ClientsServe ==
    ASSUME SessionInv, ServiceInv, Alone, NEW h \in Pipes, Clients(h), ~Helped(h)
    PROVE  ServiceInv' /\ [Service!SvcNext]_(Service!svcVars)
<1>0. /\ pipe \in [Pipes -> PipeStates] /\ inbox \in [Pipes -> Seq(Msgs)]
      /\ pc \in [Pipes -> Points] /\ Msgs = {START, BREAK} /\ START # BREAK
      /\ sent \in [Pipes -> SUBSET {"IMGDATA"}]
  BY SessionTypes DEF SessionInv, OwnInv, TypeOK, OwnerTypeOK
<1>1. /\ UNCHANGED <<pc, cmd, stopEvt, stopping, streamMap, op, tpc, mainAt>>
      /\ \A g \in Pipes \ {h} : pipe'[g] = pipe[g] /\ inbox'[g] = inbox[g] /\ sent'[g] = sent[g]
  BY <1>0 DEF Clients, ClientConnects, ClientAsks, ClientDisconnects, ClientOpen, ClientWrite,
              ClientClose, ClientLeaves, threadVars, ownerVars, dataVars, clientVars
<1>2. InboxAgrees(h) /\ AskedAgrees(h) /\ ClientAgrees(h) /\ ServiceAgrees(h)
  BY DEF SessionInv, SessionAgrees, ServiceInv
<1>3. pc[h] = "disconnect" => pipe[h] \in {"connected", "closing", "disconnected"}
  BY DEF SessionInv, PSTInv, ServedWhileReading, Served
<1>4. pc[h] = "disconnect" /\ ~stopEvt[h] => UNCHANGED <<pipe, inbox>>
  BY <1>2, <1>3 DEF ServiceAgrees, Clients, ClientConnects, ClientAsks, ClientDisconnects, ClientOpen,
              ClientWrite, ClientClose
<1>5. Elsewhere(h) /\ ServiceAgrees(h)'
  BY <1>1, <1>2, <1>4 DEF Elsewhere, ServiceAgrees, Live, shutdown
<1>6. Service!SvcNext
  <2>1. CASE ClientConnects(h)
    <3>1. /\ pipe[h] \in {"created", "listening"} /\ pipe' = [pipe EXCEPT ![h] = "connected"]
          /\ inbox' = inbox /\ sent' = sent
      BY <2>1 DEF ClientConnects, ClientOpen, ownerVars, clientVars
    <3>2. inbox[h] = <<>> /\ sent[h] = {}
      BY <1>2, <3>1 DEF InboxAgrees, AskedAgrees, Alone, NoUnrequestedImages
    <3>3. pc[h] \in Waiting
      <4>1. pc[h] \notin {"read", "waitRead", "handler", "disconnect"}
        BY <3>1 DEF SessionInv, PSTInv, ServedWhileReading, Served
      <4>2. pc[h] # "onDisconnect"
        BY <1>2, <3>1 DEF ClientAgrees
      <4> QED BY <1>0, <4>1, <4>2 DEF Points, Waiting
    <3>4. ~Live(h) /\ cmd[h] = NoMsg
      <4>1. ~Live(h)
        BY <3>3, WaitingIsClean
      <4>2. cmd[h] = NoMsg
        BY <3>3 DEF SessionInv, PSTInv, PSTTypeOK, Waiting
      <4> QED BY <4>1, <4>2
    <3>5. Service!Arrives(h)
      BY <1>0, <1>1, <3>1, <3>2, <3>4 DEF Service!Arrives, Live, shutdown
    <3> QED BY <3>5 DEF Service!SvcNext
  <2>2. CASE ClientAsks(h)
    <3>m. PICK m \in {START, BREAK} : m = IF asked[h] = START THEN BREAK ELSE START
      OBVIOUS
    <3>1. /\ pipe[h] = "connected" /\ pipe' = pipe /\ sent' = sent
          /\ inbox' = [inbox EXCEPT ![h] = Append(@, m)]
      BY <2>2, <3>m DEF ClientAsks, ClientWrite
    <3>2. Service!Asks(h, m)
      BY <1>1, <3>1 DEF Service!Asks, Live, shutdown
    <3> QED BY <3>2 DEF Service!SvcNext
  <2>3. CASE ClientDisconnects(h)
    <3>1. /\ pipe[h] = "connected" /\ pipe' = [pipe EXCEPT ![h] = "closing"] /\ inbox' = inbox
      BY <2>3 DEF ClientDisconnects, ClientClose
    <3>2. Service!Leaves(h)
      BY <1>0, <1>1, <3>1 DEF Service!Leaves, Live, shutdown
    <3> QED BY <3>2 DEF Service!SvcNext
  <2> QED BY <2>1, <2>2, <2>3 DEF Clients
<1> QED BY <1>5, <1>6, ServiceFrame

\* stop() closes the service with its first step.
LEMMA StopServes ==
    ASSUME SessionInv, ServiceInv, Stop
    PROVE  ServiceInv' /\ [Service!SvcNext]_(Service!svcVars)
<1>0. /\ streamMap \in [Pipes -> {"none", "stream", "stopped"}]
      /\ mainAt \in {"run", "flags", "overall"}
  BY SessionTypes DEF SessionInv, OwnInv, TypeOK, OwnerTypeOK
<1>1. UNCHANGED <<pc, cmd, pipe, inbox, tpc, op, sent>>
  BY DEF Stop, StopStore, StopFlags, StopThreads, StopOverall, StopBegin, StopSignal, StopClear,
         StopUnlock, StopWaited, pstVars, threadVars, pipeVars, ownerVars, dataVars, clientVars
<1>2. CASE StopStore \/ StopFlags
  <2>1. UNCHANGED <<stopEvt, stopping>>
    BY <1>2 DEF StopStore, StopFlags, pstVars, threadVars
  <2>2. /\ mainAt # "overall" /\ mainAt' # "run"
        /\ \A g \in Pipes : op[g] = "emplace" => streamMap'[g] = streamMap[g]
        /\ \A g \in Pipes : streamMap'[g] = "none" <=> streamMap[g] = "none"
    BY <1>2 DEF StopStore, StopFlags, dataVars, mtxFree
  <2>3. stopping = "no" /\ \A g \in Pipes : ~stopEvt[g]
    BY <2>2 DEF ServiceInv
  <2>4. ASSUME NEW g \in Pipes PROVE ServiceAgrees(g)'
    <3>1. ServiceAgrees(g)
      BY DEF ServiceInv
    <3> QED BY <1>1, <2>1, <2>2, <3>1 DEF ServiceAgrees, Live, shutdown
  <2>5. ServiceInv'
    BY <2>1, <2>3, <2>4 DEF ServiceInv
  <2>6. Service!Closes
    BY <1>1, <2>2 DEF Service!Closes, Live, shutdown
  <2> QED BY <2>5, <2>6 DEF Service!SvcNext
<1>3. CASE StopThreads
  <2>1. UNCHANGED <<streamMap, mainAt>> /\ mainAt = "overall"
    BY <1>3 DEF StopThreads, ownerVars, dataVars
  <2>2. stopping' # "no" /\ \A g \in Pipes : stopEvt'[g] \/ ~stopEvt[g]
    BY <1>3 DEF StopThreads, StopOverall, StopBegin, StopSignal, StopClear, StopUnlock, StopWaited,
                SessionInv, PSTInv, PSTTypeOK
  <2>3. ASSUME NEW g \in Pipes PROVE ServiceAgrees(g)'
    <3>1. ServiceAgrees(g)
      BY DEF ServiceInv
    <3> QED BY <1>1, <2>1, <2>2, <3>1 DEF ServiceAgrees, Live, shutdown
  <2> QED BY <1>1, <2>1, <2>2, <2>3, ServiceStutters DEF ServiceInv, shutdown
<1> QED BY <1>2, <1>3 DEF Stop

\* Every step of the Server is a step of the service.
LEMMA ServiceStep ==
    ASSUME ~FilesEnd, SessionInv, Alone, ServiceInv, [Next]_vars
    PROVE  ServiceInv' /\ [Service!SvcNext]_(Service!svcVars)
<1>0. /\ \A d \in Disconnectors : op[d] = "idle"
      /\ \A t \in Threads : op[t] # "dangling"
      /\ \A h \in Pipes : ~Helped(h)
  BY DEF Alone, Helped, Works
<1>1. ASSUME UNCHANGED <<pc, cmd, pipe, inbox, stopEvt, stopping, streamMap, tpc, op, mainAt, sent>>
      PROVE  ServiceInv' /\ [Service!SvcNext]_(Service!svcVars)
  BY <1>1, ServiceStutters DEF ServiceInv, ServiceAgrees, Live, shutdown
<1>2. ASSUME NEW h \in Pipes, Server(h)
      PROVE  ServiceInv' /\ [Service!SvcNext]_(Service!svcVars)
  <2>1. CASE StopHandlerLookup(h) \/ Cleanup(h)
    BY <1>0, <2>1, CleanupServes DEF Threads
  <2>2. CASE HandleTerminates(h)
    BY <1>1, <2>2 DEF HandleTerminates, Crash, pstVars, pipeVars, threadVars, dataVars, clientVars
  <2> QED BY <1>2, <2>1, <2>2, ThreadStepServes, DispatchServes, HandleServes DEF Server, Callback
<1>3. ASSUME NEW d \in Disconnectors, Detached(d) PROVE FALSE
  BY <1>0, <1>3 DEF Detached, DetachedDisconnects, Cleanup, OnDisconnectLookup, LookupSession,
                    PoolFind, PoolJoin, PoolErase, PoolDangling
<1>4. CASE PoolRace \/ (\E h \in Pipes : TranslateThrows(h))
  BY <1>1, <1>4 DEF PoolRace, TranslateThrows, Crash, pstVars, pipeVars, threadVars, dataVars, clientVars
<1>5. CASE UNCHANGED vars
  BY <1>1, <1>5 DEF vars, pstVars, pipeVars, threadVars, ownerVars, dataVars, clientVars
<1> QED BY <1>0, <1>2, <1>3, <1>4, <1>5, TranslateServes, ClientsServe, StopServes
        DEF Next, Terminated

\* With a directory that does not end, the Server implements the service it promises
\* its clients, whatever they, stop() and the scheduler do: commands are carried out
\* one after the other, images begin and end as asked for and for no other reason, and
\* nothing of one client reaches the next.
THEOREM ServerServesClients ==
    ASSUME ~FilesEnd
    PROVE  Spec => ServesClients
<1>1. Init => ServiceInv /\ Service!SvcInit
  BY DEF Init, PSTInit, NamedPipeInit, ServiceInv, ServiceAgrees, Service!SvcInit, Live, shutdown,
         Threads, Works
<1>2. SessionInv /\ Alone /\ ServiceInv /\ [Next]_vars
        => ServiceInv' /\ [Service!SvcNext]_(Service!svcVars)
  BY ServiceStep
<1> QED BY <1>1, <1>2, SessionInvHolds, AloneHolds, PTL DEF Spec, ServesClients, Service!SvcSpec

=============================================================================
