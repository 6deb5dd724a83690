---------------------------- MODULE ImageServer ----------------------------
(***************************************************************************)
(* Class Server (src/Server/Server/Server.cpp) on top of the server        *)
(* threads of PipeServerThread.  Four kinds of threads share its state:    *)
(*   - the server thread of each instance h, in the handlers `handle`      *)
(*     (CMD_START), `stopHandler` (CMD_BREAK) and `onDisconnect`;          *)
(*   - the translation thread `handle` starts for h;                       *)
(*   - the detached threads a translation starts when there are no more    *)
(*     files, which call disconnect_pipe (and so onDisconnect) from        *)
(*     outside;                                                            *)
(*   - the main thread, which calls stop().                                *)
(* mtx guards streamMap; `pool` is filled under mtx but searched, joined   *)
(* and erased without it.                                                  *)
(***************************************************************************)
EXTENDS PipeServerThread

CONSTANTS
    Disconnectors,  \* bound: detached disconnect_pipe threads alive at once
    FilesEnd,       \* may the directory's iteration end while somebody watches?
    START, BREAK    \* CMD_START, CMD_BREAK

NoPipe == "NoPipe"

ASSUME ImageServerAssumption ==
    /\ Disconnectors \cap Pipes = {} /\ NoPipe \notin Pipes
    /\ FilesEnd \in BOOLEAN
    /\ Msgs = {START, BREAK} /\ START # BREAK

VARIABLES
    streamMap,  \* Session of h: "none", or its flag: "stream" (true), "stopped"
    pool,       \* pool[h]: "absent", or its std::thread: "joinable", "joined"
    tpc,        \* where the translation thread of h is
    op,         \* where a thread is inside the Server's callbacks
    target,     \* the instance a detached thread was started for
    mainAt,     \* where stop() is: "run" (not called), "flags", "overall"
    crash,      \* "no", or the undefined behaviour or std::terminate reached
    asked,      \* the last command the current client of h sent
    sent,       \* the kinds of message the current client of h was sent
    tstale,     \* history: the client the translation of h was started for left
    dstale      \* history: same for the client a detached thread is to disconnect

dataVars == <<streamMap, pool, tpc>>
clientVars == <<asked, sent, tstale, dstale>>
ownerVars == <<dataVars, op, target, mainAt, crash, clientVars>>
vars == <<pstVars, ownerVars>>

Threads == Pipes \cup Disconnectors

\* Shared by the server threads and the detached threads: `lost` is the entry of
\* onDisconnect, `find`, `join` and `erase` its (or stopHandler's) work on pool.
CleanupPoints == {"lost", "find", "join", "erase", "dangling"}
ServerPoints == CleanupPoints \cup {"idle", "start", "startLock", "emplace", "brk"}
DetachedPoints == CleanupPoints \cup {"idle", "disc"}

OwnerTypeOK ==
    /\ streamMap \in [Pipes -> {"none", "stream", "stopped"}]
    /\ pool \in [Pipes -> {"absent", "joinable", "joined"}]
    /\ tpc \in [Pipes -> {"over", "top", "send", "check"}]
    /\ op \in [Threads -> ServerPoints \cup DetachedPoints]
    /\ \A h \in Pipes : op[h] \in ServerPoints
    /\ \A d \in Disconnectors : op[d] \in DetachedPoints
    /\ target \in [Disconnectors -> Pipes \cup {NoPipe}]
    /\ \A d \in Disconnectors : target[d] = NoPipe <=> op[d] = "idle"
    /\ mainAt \in {"run", "flags", "overall"}
    /\ crash \in {"no", "terminate", "dangling", "race", "exception"}
    /\ asked \in [Pipes -> Msgs \cup {NoMsg}]
    /\ sent \in [Pipes -> SUBSET {"IMGDATA"}]
    /\ tstale \in [Pipes -> BOOLEAN]
    /\ dstale \in [Disconnectors -> BOOLEAN]

TypeOK == PSTTypeOK /\ OwnerTypeOK

Init ==
    /\ PSTInit
    /\ streamMap = [h \in Pipes |-> "none"]
    /\ pool = [h \in Pipes |-> "absent"]
    /\ tpc = [h \in Pipes |-> "over"]
    /\ op = [t \in Threads |-> "idle"]
    /\ target = [d \in Disconnectors |-> NoPipe]
    /\ mainAt = "run"
    /\ crash = "no"
    /\ asked = [h \in Pipes |-> NoMsg]
    /\ sent = [h \in Pipes |-> {}]
    /\ tstale = [h \in Pipes |-> FALSE]
    /\ dstale = [d \in Disconnectors |-> FALSE]

-----------------------------------------------------------------------------

Live(h) == tpc[h] # "over"

InstanceOf(t) == IF t \in Pipes THEN t ELSE target[t]

\* The atomic flag `shutdown`: the first thing stop() stores.
shutdown == mainAt # "run"

\* `handle` is the only function that keeps mtx across a step of this model.
mtxFree == \A h \in Pipes : op[h] # "emplace"

OpTo(t, o) == op' = [op EXCEPT ![t] = o]

\* The client of h is gone, by itself or by DisconnectNamedPipe.
ClientLeaves(h) ==
    /\ asked' = [asked EXCEPT ![h] = NoMsg]
    /\ sent' = [sent EXCEPT ![h] = {}]
    /\ tstale' = [tstale EXCEPT ![h] = Live(h)]
    /\ dstale' = [d \in Disconnectors |-> dstale[d] \/ target[d] = h]

Crash(kind) ==
    /\ crash' = kind
    /\ UNCHANGED <<pstVars, dataVars, op, target, mainAt, clientVars>>

\* The callback t is in returns to whoever called it; a detached thread ends.
Return(t) ==
    IF t \in Pipes
    THEN /\ HandlerReturn(t) \/ OnDisconnectReturn(t)
         /\ UNCHANGED <<target, dstale>>
    ELSE /\ target' = [target EXCEPT ![t] = NoPipe]
         /\ dstale' = [dstale EXCEPT ![t] = FALSE]
         /\ UNCHANGED pstVars

-----------------------------------------------------------------------------
(* The server thread outside the callbacks, and into them *)

ThreadStep(h) ==
    /\ \/ LoopTest(h) \/ ConnectPending(h) \/ ConnectAlready(h) \/ ConnectNoData(h)
       \/ ConnectDone(h) \/ ConnectTimeout(h) \/ ResetAfterTimeout(h)
       \/ ReadIssue(h) \/ ReadRefused(h) \/ ReadError(h) \/ StopObserved(h)
       \/ LeavePool(h) \/ CloseContext(h)
    /\ UNCHANGED ownerVars

\* psPerfomAction looks the command up in the map of linked actions.
Dispatch(h) ==
    /\ ReadMessage(h)
    /\ OpTo(h, IF Head(inbox[h]) = START THEN "start" ELSE "brk")
    /\ UNCHANGED <<dataVars, target, mainAt, crash, clientVars>>

ThreadDisconnects(h) ==
    /\ DisconnectPipe(h)
    /\ ClientLeaves(h)
    /\ OpTo(h, "lost")
    /\ UNCHANGED <<dataVars, target, mainAt, crash>>

-----------------------------------------------------------------------------
(* handle *)

HandleRefused(h) ==
    /\ op[h] = "start"
    /\ shutdown
    /\ OpTo(h, "idle")
    /\ HandlerReturn(h)
    /\ UNCHANGED <<dataVars, target, mainAt, crash, clientVars>>

HandleChecked(h) ==
    /\ op[h] = "start"
    /\ ~shutdown
    /\ OpTo(h, "startLock")
    /\ UNCHANGED <<pstVars, dataVars, target, mainAt, crash, clientVars>>

\* Mutant: streamMap.emplace, which leaves a Session that is there as it is.
HandleSessionEmplaced(h) ==
    /\ op[h] = "startLock"
    /\ mtxFree
    /\ streamMap' = [streamMap EXCEPT ![h] = IF @ = "none" THEN "stream" ELSE @]
    /\ OpTo(h, "emplace")
    /\ UNCHANGED <<pstVars, pool, tpc, target, mainAt, crash, clientVars>>

\* mtx is taken and kept; streamMap[pipe] = Session{..., true}
HandleSession(h) ==
    /\ op[h] = "startLock"
    /\ mtxFree
    /\ streamMap' = [streamMap EXCEPT ![h] = "stream"]
    /\ OpTo(h, "emplace")
    /\ UNCHANGED <<pstVars, pool, tpc, target, mainAt, crash, clientVars>>

\* pool.emplace(pipe, std::thread(translate)), and mtx is released.  The thread
\* is started when its object is made; nothing it does before the emplacement
\* depends on pool, so the two are one step.
HandleEmplace(h) ==
    /\ op[h] = "emplace"
    /\ pool[h] = "absent"
    /\ pool' = [pool EXCEPT ![h] = "joinable"]
    /\ tpc' = [tpc EXCEPT ![h] = "top"]
    /\ tstale' = [tstale EXCEPT ![h] = (pipe[h] # "connected")]
    /\ OpTo(h, "idle")
    /\ HandlerReturn(h)
    /\ UNCHANGED <<streamMap, target, mainAt, crash, asked, sent, dstale>>

\* The key is taken: emplace drops the new std::thread, which is joinable, and
\* its destructor calls std::terminate.
HandleTerminates(h) ==
    /\ op[h] = "emplace"
    /\ pool[h] # "absent"
    /\ Crash("terminate")

-----------------------------------------------------------------------------
(* stopHandler, onDisconnect and the cleanup they share *)

\* The Session is looked up under mtx; `value` is what becomes of it.
LookupSession(t, point, value) ==
    LET h == InstanceOf(t) IN
    /\ op[t] = point
    /\ mtxFree
    /\ IF streamMap[h] # "none"
       THEN /\ streamMap' = [streamMap EXCEPT ![h] = value]
            /\ OpTo(t, "find")
            /\ UNCHANGED <<pstVars, target, dstale>>
       ELSE /\ OpTo(t, "idle")
            /\ Return(t)
            /\ UNCHANGED streamMap
    /\ UNCHANGED <<pool, tpc, mainAt, crash, asked, sent, tstale>>

\* Mutants: the Session is changed, and the translation neither joined nor erased.
LookupOnly(t, point, value) ==
    /\ op[t] = point
    /\ mtxFree
    /\ streamMap' = [streamMap EXCEPT ![InstanceOf(t)] = IF @ = "none" THEN @ ELSE value]
    /\ OpTo(t, "idle")
    /\ Return(t)
    /\ UNCHANGED <<pool, tpc, mainAt, crash, asked, sent, tstale>>

StopHandlerOnly(h) == LookupOnly(h, "brk", "stopped")
OnDisconnectOnly(t) == LookupOnly(t, "lost", "none")

StopHandlerLookup(h) == LookupSession(h, "brk", "stopped")
OnDisconnectLookup(t) == LookupSession(t, "lost", "none")

\* pool.find(pipe), without mtx
PoolFind(t) ==
    /\ op[t] = "find"
    /\ IF pool[InstanceOf(t)] # "absent"
       THEN OpTo(t, "join") /\ UNCHANGED <<pstVars, target, dstale>>
       ELSE OpTo(t, "idle") /\ Return(t)
    /\ UNCHANGED <<dataVars, mainAt, crash, asked, sent, tstale>>

\* Mutant: detach instead of join.
PoolDetach(t) ==
    /\ op[t] = "join"
    /\ pool' = [pool EXCEPT ![InstanceOf(t)] = "joined"]
    /\ OpTo(t, "erase")
    /\ UNCHANGED <<pstVars, streamMap, tpc, target, mainAt, crash, clientVars>>

\* if (service->second.joinable()) service->second.join()
PoolJoin(t) ==
    LET h == InstanceOf(t) IN
    /\ op[t] = "join"
    /\ pool[h] = "joinable" => ~Live(h)
    /\ pool' = [pool EXCEPT ![h] = "joined"]
    /\ OpTo(t, "erase")
    /\ UNCHANGED <<pstVars, streamMap, tpc, target, mainAt, crash, clientVars>>

\* Mutant: the joined std::thread stays in pool.
PoolKeep(t) ==
    /\ op[t] = "erase"
    /\ OpTo(t, "idle")
    /\ Return(t)
    /\ UNCHANGED <<dataVars, mainAt, crash, asked, sent, tstale>>

\* pool.erase(service), and the callback returns.  Iterators other threads hold
\* to this entry dangle from now on.
PoolErase(t) ==
    LET h == InstanceOf(t) IN
    /\ op[t] = "erase"
    /\ pool' = [pool EXCEPT ![h] = "absent"]
    /\ op' = [u \in Threads |->
                IF u = t THEN "idle"
                ELSE IF op[u] \in {"join", "erase"} /\ InstanceOf(u) = h THEN "dangling"
                ELSE op[u]]
    /\ Return(t)
    /\ UNCHANGED <<streamMap, tpc, mainAt, crash, asked, sent, tstale>>

\* joinable(), join() or erase() through an iterator to an erased entry.
PoolDangling(t) ==
    /\ op[t] = "dangling"
    /\ Crash("dangling")

\* Two threads are about to access pool, one of them to change it: a map
\* operation against an insertion or erasure, or two uses of one std::thread.
PoolConflict(t, u) ==
    /\ t # u
    /\ \/ /\ op[t] \in {"emplace", "erase"}
          /\ op[u] \in {"find", "emplace", "erase"}
       \/ /\ op[t] = "join"
          /\ op[u] \in {"join", "erase"}
          /\ InstanceOf(t) = InstanceOf(u)

\* A data race on pool has no defined outcome: the steps above, or this.
PoolRace ==
    /\ \E t, u \in Threads : PoolConflict(t, u)
    /\ Crash("race")

-----------------------------------------------------------------------------
(* translate *)

\* A further file: the shutdown check at the top of the loop.
TranslateNext(h) ==
    /\ tpc[h] = "top"
    /\ tpc' = [tpc EXCEPT ![h] = IF shutdown THEN "over" ELSE "send"]
    /\ UNCHANGED <<pstVars, streamMap, pool, op, target, mainAt, crash, clientVars>>

\* directory_iterator throws, when it is made or comes to the next file, and
\* nobody catches it: std::terminate.
TranslateThrows(h) ==
    /\ tpc[h] = "top"
    /\ Crash("exception")

\* The image goes out as messages to the handle, whoever is connected to it
\* (ImageTransfer has the messages); the results of sendData are not looked at.
TranslateSend(h) ==
    /\ tpc[h] = "send"
    /\ tpc' = [tpc EXCEPT ![h] = "check"]
    /\ sent' = IF pipe[h] = "connected"
               THEN [sent EXCEPT ![h] = @ \cup {"IMGDATA"}]
               ELSE sent
    /\ UNCHANGED <<pstVars, streamMap, pool, op, target, mainAt, crash, asked, tstale, dstale>>

\* Mutant: a Session that is not there does not end the translation.
TranslateCheckFlagOnly(h) ==
    /\ tpc[h] = "check"
    /\ mtxFree
    /\ tpc' = [tpc EXCEPT ![h] = IF streamMap[h] # "stopped" THEN "top" ELSE "over"]
    /\ UNCHANGED <<pstVars, streamMap, pool, op, target, mainAt, crash, clientVars>>

\* After the pause between images the Session is looked up under mtx.
TranslateCheck(h) ==
    /\ tpc[h] = "check"
    /\ mtxFree
    /\ tpc' = [tpc EXCEPT ![h] = IF streamMap[h] = "stream" THEN "top" ELSE "over"]
    /\ UNCHANGED <<pstVars, streamMap, pool, op, target, mainAt, crash, clientVars>>

\* No more files: a detached thread is to disconnect the client.
TranslateEnd(h) ==
    /\ FilesEnd
    /\ tpc[h] = "top"
    /\ tpc' = [tpc EXCEPT ![h] = "over"]
    /\ \E d \in Disconnectors :
          /\ op[d] = "idle"
          /\ OpTo(d, "disc")
          /\ target' = [target EXCEPT ![d] = h]
          /\ dstale' = [dstale EXCEPT ![d] = tstale[h]]
    /\ UNCHANGED <<pstVars, streamMap, pool, mainAt, crash, asked, sent, tstale>>

\* disconnect_pipe in the detached thread.
DetachedDisconnects(d) ==
    /\ op[d] = "disc"
    /\ ForceDisconnect(target[d])
    /\ ClientLeaves(target[d])
    /\ OpTo(d, "lost")
    /\ UNCHANGED <<dataVars, target, mainAt, crash>>

-----------------------------------------------------------------------------
(* stop *)

StopStore ==
    /\ mainAt = "run"
    /\ mainAt' = "flags"
    /\ UNCHANGED <<pstVars, dataVars, op, target, crash, clientVars>>

\* for (auto &flag : streamMap) flag.second.stream = false
StopFlags ==
    /\ mainAt = "flags"
    /\ mtxFree
    /\ streamMap' = [h \in Pipes |-> IF streamMap[h] = "none" THEN "none" ELSE "stopped"]
    /\ mainAt' = "overall"
    /\ UNCHANGED <<pstVars, pool, tpc, op, target, crash, clientVars>>

StopThreads ==
    /\ mainAt = "overall"
    /\ StopOverall
    /\ UNCHANGED ownerVars

-----------------------------------------------------------------------------
(* The clients: pipeclient's window enables Start and Stop in turn *)

ClientConnects(h) ==
    /\ ClientOpen(h)
    /\ UNCHANGED <<threadVars, ownerVars>>

ClientAsks(h) ==
    LET m == IF asked[h] = START THEN BREAK ELSE START IN
    /\ ClientWrite(h, m)
    /\ asked' = [asked EXCEPT ![h] = m]
    /\ UNCHANGED <<threadVars, dataVars, op, target, mainAt, crash, sent, tstale, dstale>>

ClientDisconnects(h) ==
    /\ ClientClose(h)
    /\ ClientLeaves(h)
    /\ UNCHANGED <<threadVars, dataVars, op, target, mainAt, crash>>

-----------------------------------------------------------------------------

Cleanup(t) ==
    \/ OnDisconnectLookup(t)
    \/ PoolFind(t) \/ PoolJoin(t) \/ PoolErase(t) \/ PoolDangling(t)

Callback(h) ==
    \/ HandleRefused(h) \/ HandleChecked(h) \/ HandleSession(h)
    \/ HandleEmplace(h) \/ HandleTerminates(h)
    \/ StopHandlerLookup(h) \/ Cleanup(h)

Server(h) == ThreadStep(h) \/ Dispatch(h) \/ ThreadDisconnects(h) \/ Callback(h)

Translate(h) ==
    TranslateNext(h) \/ TranslateSend(h) \/ TranslateCheck(h) \/ TranslateEnd(h)

Detached(d) == DetachedDisconnects(d) \/ Cleanup(d)

Stop == StopStore \/ StopFlags \/ StopThreads

Clients(h) == ClientConnects(h) \/ ClientAsks(h) \/ ClientDisconnects(h)

Quiet ==
    /\ stopping = "done"
    /\ \A h \in Pipes : ~Live(h)
    /\ \A d \in Disconnectors : op[d] = "idle"

\* The process has ended.
Terminated == (Quiet \/ crash # "no") /\ UNCHANGED vars

Next ==
    \/ /\ crash = "no"
       /\ \/ \E h \in Pipes : Server(h) \/ Translate(h) \/ Clients(h)
          \/ \E d \in Disconnectors : Detached(d)
          \/ \E h \in Pipes : TranslateThrows(h)
          \/ PoolRace
          \/ Stop
    \/ Terminated

Spec == Init /\ [][Next]_vars

\* Every thread runs, and none waits for mtx for ever: its critical sections are
\* short, and a translation sleeps a second between two of them.  StopObserved as
\* in PipeServerThread.  stop() once called goes on; nobody has to call it.
Running(A) == crash = "no" /\ A

Fairness ==
    /\ \A h \in Pipes : SF_vars(Running(Server(h))) /\ SF_vars(Running(Translate(h)))
    /\ \A h \in Pipes : SF_vars(Running(StopObserved(h) /\ ThreadStep(h)))
    /\ \A d \in Disconnectors : SF_vars(Running(Detached(d)))
    /\ SF_vars(Running(shutdown /\ Stop))

FairSpec == Spec /\ Fairness

-----------------------------------------------------------------------------
(* Properties *)

Service == INSTANCE ImageService WITH
    there <- {h \in Pipes : pipe[h] = "connected"},
    unread <- inbox,
    doing <- cmd,
    watching <- {h \in Pipes : Live(h)},
    got <- {h \in Pipes : pipe[h] = "connected" /\ sent[h] # {}},
    closed <- shutdown

\* With an endless directory the Server is the service ImageService promises: what
\* its clients see of server threads, translations, joins and flags is that
\* commands are carried out one after the other, that images begin, end and
\* pause as asked for, and that nothing of one client reaches the next.
ServesClients == Service!SvcSpec

\* A detached disconnect of h is still in flight.
InFlight(h) == \E d \in Disconnectors : target[d] = h

\* No translation thread is ever orphaned: as long as one runs, its std::thread
\* is in pool and not joined, whoever cleans up, so that somebody can join it.
LiveTranslationIsOwned == \A h \in Pipes : Live(h) => pool[h] = "joinable"

\* Once the server has handled everything a client sent and the last was
\* CMD_BREAK, no translation runs for it: stopHandler has joined it.  Only a
\* detached disconnect that works on the same handle can spoil this.
PausedClientIsQuiet ==
    \A h \in Pipes :
        /\ crash = "no" /\ ~shutdown /\ ~InFlight(h)
        /\ asked[h] = BREAK /\ inbox[h] = <<>> /\ pc[h] \in {"read", "waitRead"}
        => ~Live(h)

\* A client that did not ask for images gets none, although the handle it is
\* connected to served other clients before: onDisconnect has joined their
\* translation before the instance listens again.
NoUnrequestedImages == \A h \in Pipes : asked[h] = NoMsg => sent[h] = {}

\* A translation whose client has left is over before another client is there.
NoForeignTranslation ==
    \A h \in Pipes : Live(h) /\ tstale[h] => pipe[h] # "connected" \/ InFlight(h)

\* pool.emplace never meets the key of an older translation (which would
\* terminate the process), and no iterator into pool dangles.
PoolEntriesAreUnique == crash \notin {"terminate", "dangling"}

\* The same, with a finite directory: an occupied key is met only while a
\* detached disconnect has taken the Session away and not yet the std::thread.
TerminateNeedsDetached ==
    \A h \in Pipes : op[h] = "emplace" /\ pool[h] # "absent" => InFlight(h)

\* When stop() has returned, no translation runs and pool is empty, so that the
\* Server can be destroyed; only a detached disconnect in flight can still have
\* work to do.
StopLeavesNothing ==
    stopping = "done" /\ crash = "no" =>
        \A h \in Pipes : (~Live(h) /\ pool[h] = "absent") \/ InFlight(h)

\* stop() returns, whatever the clients do meanwhile, unless the process is
\* already lost.
StopCompletes == shutdown ~> (stopping = "done" \/ crash # "no")

\* A client's message, or its leaving, does not block its server thread for ever:
\* the translation it joins sees that its Session is stopped or gone.  (A detached
\* thread has no such promise: it can come to join the translation of a later
\* client, and then waits as long as that one watches.)
ServerJoinsReturn ==
    \A h \in Pipes : op[h] = "join" ~> (op[h] # "join" \/ crash # "no")

\* The detached disconnect_pipe disconnects the client whose images ran out, not
\* one that came later ("disconnect the client if there are no more images").
DetachedHitsItsClient ==
    [][\A d \in Disconnectors :
          op[d] = "disc" /\ op'[d] = "lost" /\ dstale[d] => pipe[target[d]] # "connected"]_vars

=============================================================================
