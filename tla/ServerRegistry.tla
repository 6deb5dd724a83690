--------------------------- MODULE ServerRegistry ---------------------------
(***************************************************************************)
(* The registry of COVPipeServerManager                                    *)
(* (src/winapiPipe/OVPipeServerManager.h): m_pool_map, which psRun,        *)
(* psStop, psStopOverall and psSetOutputBufferSize use, and from which     *)
(* every server thread takes itself out when it ends.  What a thread does  *)
(* in its loop is PipeServerThread's; here it is in the loop until it sees *)
(* its flag.  One thread, the owner's, calls the operations, in any order, *)
(* and destroys the manager in the end.                                    *)
(***************************************************************************)
EXTENDS Naturals, FiniteSets

CONSTANTS
    Threads,  \* bound: server threads at once; an id that is over is used again
    Sizes,    \* sizes psSetOutputBufferSize does not refuse at once
    Limit     \* PIPE_UNLIMITED_INSTANCES

NoThread == "NoThread"
NoSize == "NoSize"

ASSUME ServerRegistryAssumption ==
    /\ Threads # {} /\ NoThread \notin Threads
    /\ Sizes # {} /\ NoSize \notin Sizes
    /\ Limit \in Nat

VARIABLES
    m_pool_map,       \* the threads that have an entry
    context,          \* those whose entry's context is not null
    m_auxLockObject,  \* held over several steps (by psStopOverall only)
    m_dwOutputSize,
    thread,           \* where each thread is
    bShutDown,        \* bShutDown[t]: t is to go on (the code's name says the opposite)
    pipeBufferSize,   \* pipeBufferSize[t]: the size of t's buffer
    owner,            \* what the owner's thread is in: an operation's next step
    current,          \* the thread psRun is making
    wanted,           \* the size psSetOutputBufferSize was called with
    defered_handles,  \* the threads psStopOverall waits for
    stopped           \* history: the threads psStop has stopped

registry == <<m_pool_map, context, m_auxLockObject>>
threads == <<thread, bShutDown, pipeBufferSize>>
call == <<owner, current, wanted, defered_handles>>
vars == <<registry, m_dwOutputSize, threads, call, stopped>>

ThreadPoints == {"none", "created", "start", "loop", "clean", "erase", "delete", "over"}
OwnerPoints == {"idle", "insert", "resume", "size", "stopping", "waiting",
                "lastStopping", "lastWaiting", "destroyed"}

TypeOK ==
    /\ m_pool_map \subseteq Threads /\ context \subseteq m_pool_map
    /\ m_auxLockObject \in BOOLEAN
    /\ m_dwOutputSize \in Sizes
    /\ thread \in [Threads -> ThreadPoints]
    /\ bShutDown \in [Threads -> BOOLEAN]
    /\ pipeBufferSize \in [Threads -> Sizes \cup {NoSize}]
    /\ owner \in OwnerPoints
    /\ current \in Threads \cup {NoThread}
    /\ owner \in {"insert", "resume"} => current \in Threads
    /\ wanted \in Sizes \cup {NoSize}
    /\ owner = "size" => wanted \in Sizes
    /\ defered_handles \subseteq Threads
    /\ defered_handles # {} => owner \in {"stopping", "waiting", "lastStopping", "lastWaiting"}
    /\ stopped \subseteq Threads

Init ==
    /\ m_pool_map = {} /\ context = {} /\ m_auxLockObject = FALSE
    /\ m_dwOutputSize \in Sizes
    /\ thread = [t \in Threads |-> "none"]
    /\ bShutDown = [t \in Threads |-> TRUE]
    /\ pipeBufferSize = [t \in Threads |-> NoSize]
    /\ owner = "idle" /\ current = NoThread /\ wanted = NoSize
    /\ defered_handles = {}
    /\ stopped = {}

\* The thread of t runs, or may be made to run; its context exists.
Alive(t) == thread[t] \notin {"none", "over"}

-----------------------------------------------------------------------------
(* psRun: a failure, or a map of Limit entries, changes nothing.           *)

\* An instance, its context and a suspended thread are made.  Windows gives it the
\* id of no thread that exists or is referred to by a handle.
RunCreates(t) ==
    /\ owner = "idle"
    /\ Cardinality(m_pool_map) # Limit
    /\ ~Alive(t) /\ t \notin m_pool_map
    /\ thread' = [thread EXCEPT ![t] = "created"]
    /\ bShutDown' = [bShutDown EXCEPT ![t] = TRUE]
    /\ pipeBufferSize' = [pipeBufferSize EXCEPT ![t] = NoSize]
    /\ stopped' = stopped \ {t}
    /\ owner' = "insert"
    /\ current' = t
    /\ UNCHANGED <<registry, m_dwOutputSize, wanted, defered_handles>>

RunInserts ==
    /\ owner = "insert"
    /\ ~m_auxLockObject
    /\ m_pool_map' = m_pool_map \cup {current}
    /\ context' = context \cup {current}
    /\ owner' = "resume"
    /\ UNCHANGED <<m_auxLockObject, m_dwOutputSize, threads, current, wanted, defered_handles, stopped>>

RunResumes ==
    /\ owner = "resume"
    /\ thread' = [thread EXCEPT ![current] = "start"]
    /\ owner' = "idle"
    /\ current' = NoThread
    /\ UNCHANGED <<registry, m_dwOutputSize, bShutDown, pipeBufferSize, wanted, defered_handles, stopped>>

-----------------------------------------------------------------------------
(* psStop and psSetOutputBufferSize *)

\* Mutant: the context is given up without its Shutdown.
psStopForgets(t) ==
    /\ owner = "idle"
    /\ ~m_auxLockObject
    /\ t \in context /\ bShutDown[t]
    /\ context' = context \ {t}
    /\ stopped' = stopped \cup {t}
    /\ UNCHANGED <<m_pool_map, m_auxLockObject, m_dwOutputSize, threads, call>>

\* Under both locks; the entry stays until the thread erases it.
psStop(t) ==
    /\ owner = "idle"
    /\ ~m_auxLockObject
    /\ t \in context /\ bShutDown[t]
    /\ bShutDown' = [bShutDown EXCEPT ![t] = FALSE]
    /\ context' = context \ {t}
    /\ stopped' = stopped \cup {t}
    /\ UNCHANGED <<m_pool_map, m_auxLockObject, m_dwOutputSize, thread, pipeBufferSize, call>>

\* Mutant: the size is changed whether or not there are threads.
SizeAllowedAlways(s) ==
    /\ owner = "idle"
    /\ owner' = "size"
    /\ wanted' = s
    /\ UNCHANGED <<registry, m_dwOutputSize, threads, current, defered_handles, stopped>>

\* No entry: the size may be changed (the lock is given back before it is)...
SizeAllowed(s) ==
    /\ owner = "idle"
    /\ ~m_auxLockObject
    /\ m_pool_map = {}
    /\ owner' = "size"
    /\ wanted' = s
    /\ UNCHANGED <<registry, m_dwOutputSize, threads, current, defered_handles, stopped>>

\* ... and is.
SizeChanged ==
    /\ owner = "size"
    /\ m_dwOutputSize' = wanted
    /\ wanted' = NoSize
    /\ owner' = "idle"
    /\ UNCHANGED <<registry, threads, current, defered_handles, stopped>>

-----------------------------------------------------------------------------
(* psStopOverall, called by the owner, and in the end by the destructor *)

\* With an empty map it returns at once.
StopBegin ==
    /\ owner = "idle"
    /\ m_pool_map # {}
    /\ m_auxLockObject' = TRUE
    /\ owner' = "stopping"
    /\ UNCHANGED <<m_pool_map, context, m_dwOutputSize, threads, current, wanted, defered_handles, stopped>>

Destroy ==
    /\ owner = "idle"
    /\ IF m_pool_map = {}
       THEN owner' = "destroyed" /\ UNCHANGED m_auxLockObject
       ELSE owner' = "lastStopping" /\ m_auxLockObject' = TRUE
    /\ UNCHANGED <<m_pool_map, context, m_dwOutputSize, threads, current, wanted, defered_handles, stopped>>

\* Mutant: the handle is not kept.
StopEachUnkept(t) ==
    /\ owner \in {"stopping", "lastStopping"}
    /\ t \in context
    /\ bShutDown' = [bShutDown EXCEPT ![t] = FALSE]
    /\ context' = context \ {t}
    /\ UNCHANGED <<m_pool_map, m_auxLockObject, m_dwOutputSize, thread, pipeBufferSize, call, stopped>>

\* Entries without context, which psStop has left, are passed over.
StopEach(t) ==
    /\ owner \in {"stopping", "lastStopping"}
    /\ t \in context
    /\ bShutDown' = [bShutDown EXCEPT ![t] = FALSE]
    /\ context' = context \ {t}
    /\ defered_handles' = defered_handles \cup {t}
    /\ UNCHANGED <<m_pool_map, m_auxLockObject, m_dwOutputSize, thread, pipeBufferSize, owner, current, wanted,
                   stopped>>

StopClears ==
    /\ owner \in {"stopping", "lastStopping"}
    /\ context = {}
    /\ m_pool_map' = {}
    /\ m_auxLockObject' = FALSE
    /\ owner' = IF owner = "stopping" THEN "waiting" ELSE "lastWaiting"
    /\ UNCHANGED <<context, m_dwOutputSize, threads, current, wanted, defered_handles, stopped>>

StopWaited ==
    /\ owner \in {"waiting", "lastWaiting"}
    /\ \A t \in defered_handles : thread[t] = "over"
    /\ defered_handles' = {}
    /\ owner' = IF owner = "waiting" THEN "idle" ELSE "destroyed"
    /\ UNCHANGED <<registry, m_dwOutputSize, threads, current, wanted, stopped>>

-----------------------------------------------------------------------------
(* ServerThreadProc *)

ThreadTo(t, p) == thread' = [thread EXCEPT ![t] = p]

\* The buffer is allocated, of the size found here.
Starts(t) ==
    /\ thread[t] = "start"
    /\ ThreadTo(t, "loop")
    /\ pipeBufferSize' = [pipeBufferSize EXCEPT ![t] = m_dwOutputSize]
    /\ UNCHANGED <<registry, m_dwOutputSize, bShutDown, call, stopped>>

\* while( pSvrContext.IsRunning() )
Leaves(t) ==
    /\ thread[t] = "loop"
    /\ ~bShutDown[t]
    /\ ThreadTo(t, "clean")
    /\ UNCHANGED <<registry, m_dwOutputSize, bShutDown, pipeBufferSize, call, stopped>>

\* The owner's envelop cleaner is called.
Cleans(t) ==
    /\ thread[t] = "clean"
    /\ ThreadTo(t, "erase")
    /\ UNCHANGED <<registry, m_dwOutputSize, bShutDown, pipeBufferSize, call, stopped>>

\* Mutant: the thread leaves its entry.
ErasesNothing(t) ==
    /\ thread[t] = "erase"
    /\ ThreadTo(t, "delete")
    /\ UNCHANGED <<registry, m_dwOutputSize, bShutDown, pipeBufferSize, call, stopped>>

Erases(t) ==
    /\ thread[t] = "erase"
    /\ ~m_auxLockObject
    /\ m_pool_map' = m_pool_map \ {t}
    /\ context' = context \ {t}
    /\ ThreadTo(t, "delete")
    /\ UNCHANGED <<m_auxLockObject, m_dwOutputSize, bShutDown, pipeBufferSize, call, stopped>>

\* The context is destroyed and the thread ends.
Deletes(t) ==
    /\ thread[t] = "delete"
    /\ ThreadTo(t, "over")
    /\ UNCHANGED <<registry, m_dwOutputSize, bShutDown, pipeBufferSize, call, stopped>>

-----------------------------------------------------------------------------

ServerThread(t) == Starts(t) \/ Leaves(t) \/ Cleans(t) \/ Erases(t) \/ Deletes(t)

\* What the owner's thread does once it is in an operation.
Continues == RunInserts \/ RunResumes \/ SizeChanged \/ (\E t \in Threads : StopEach(t)) \/ StopClears \/ StopWaited

Calls ==
    \/ \E t \in Threads : RunCreates(t) \/ psStop(t)
    \/ \E s \in Sizes : SizeAllowed(s)
    \/ StopBegin \/ Destroy

Terminated == owner = "destroyed" /\ UNCHANGED vars

Next == Calls \/ Continues \/ (\E t \in Threads : ServerThread(t)) \/ Terminated

Spec == Init /\ [][Next]_vars

\* Threads run (that one which is told to stop leaves its loop is what
\* PipeServerThread's StopReturns shows), the lock is given to whoever waits for it,
\* and an operation goes on; nobody has to call one.
Fairness ==
    /\ \A t \in Threads : WF_vars(ServerThread(t)) /\ SF_vars(Erases(t))
    /\ WF_vars(Continues)

FairSpec == Spec /\ Fairness

-----------------------------------------------------------------------------
(* Properties *)

\* An entry of m_pool_map is of a thread whose context still exists: neither psStop
\* nor psStopOverall (nor an insertion under an id used again) meets what is gone.
EntriesAreLive == \A t \in m_pool_map : Alive(t) /\ thread[t] # "delete"

\* A thread that serves can be stopped and is waited for: it has an entry with its
\* context, or psStopOverall has its handle; only psStop lets one go.
NoThreadIsLost ==
    \A t \in Threads :
        Alive(t) /\ t \notin stopped =>
            t \in context \/ t \in defered_handles \/ (current = t /\ owner = "insert")

\* What CompleteIOProc says is the size of a thread's buffer is its size, but for
\* threads psStop has stopped.
BufferSizeIsTold ==
    \A t \in Threads : thread[t] = "loop" /\ t \notin stopped => pipeBufferSize[t] = m_dwOutputSize

\* The manager is destroyed when no thread runs in it, but for threads psStop has
\* stopped: for them nobody waits.
ManagerOutlivesThreads == owner = "destroyed" => \A t \in Threads : Alive(t) => t \in stopped

\* A thread that psStop has stopped ends, whatever else is called meanwhile.
StoppedThreadEnds == \A t \in Threads : t \in stopped ~> ~Alive(t)

=============================================================================
