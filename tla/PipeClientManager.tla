------------------------- MODULE PipeClientManager -------------------------
(***************************************************************************)
(* COVPipeClientManager (src/winapiPipe/OVPipeClientManager.h): pcConnect, *)
(* pcDisconnect, pcWait, pcSend, and the reading thread each connection    *)
(* gets, OutputThreadProc.  The owner (PipeClient) calls from one thread;  *)
(* the reading thread tells it of a lost server with a posted signal.      *)
(* pcConnect holds the lock of m_threadData throughout, and no other       *)
(* thread runs code of the manager when it gets past its first test: it is *)
(* one step.                                                               *)
(***************************************************************************)
EXTENDS Naturals

CONSTANT
    Conns  \* bound: connections in use at once; one that is over is used again

NoConn == "NoConn"

ASSUME PipeClientManagerAssumption == NoConn \notin Conns

VARIABLES
    hPipeClientSide,  \* m_threadData: the connection the handle is of
    hReadingThread,   \* m_threadData: the connection the thread reads from
    m_ShutDown,       \* tells the reading thread to end
    m_hEventRead,     \* wakes it; manual-reset
    handles,          \* handles[c]: which handles to the client's end are open
    reader,           \* where the reading thread of c is
    error,            \* its local variable: reading from the pipe failed
    server,           \* the server's end of c: "none", "up", "gone"
    owner             \* where the owner is: "idle", "signal", "wait", "destroyed"

threadData == <<hPipeClientSide, hReadingThread>>
flags == <<m_ShutDown, m_hEventRead>>
conns == <<handles, reader, error, server>>
pcmVars == <<threadData, flags, conns, owner>>

\* "deaf" waits for the event like "wait", but no read is pending.
ReaderPoints == {"none", "loop", "read", "wait", "deaf", "clean", "report", "ending", "over"}

PCMTypeOK ==
    /\ hPipeClientSide \in Conns \cup {NoConn}
    /\ hReadingThread \in Conns \cup {NoConn}
    /\ m_ShutDown \in BOOLEAN
    /\ m_hEventRead \in BOOLEAN
    /\ handles \in [Conns -> SUBSET {"side", "dup"}]
    /\ reader \in [Conns -> ReaderPoints]
    /\ error \in [Conns -> BOOLEAN]
    /\ server \in [Conns -> {"none", "up", "gone"}]
    /\ owner \in {"idle", "signal", "wait", "destroyed"}

PCMInit ==
    /\ hPipeClientSide = NoConn
    /\ hReadingThread = NoConn
    /\ m_ShutDown = FALSE
    /\ m_hEventRead = FALSE
    /\ handles = [c \in Conns |-> {}]
    /\ reader = [c \in Conns |-> "none"]
    /\ error = [c \in Conns |-> FALSE]
    /\ server = [c \in Conns |-> "none"]
    /\ owner = "idle"

\* The thread of c executes code of the manager or of its owner.
Reading(c) == reader[c] \notin {"none", "over"}

\* No handle, no thread and no variable of the manager knows c.
Unused(c) ==
    /\ handles[c] = {} /\ ~Reading(c)
    /\ c \notin {hPipeClientSide, hReadingThread}

-----------------------------------------------------------------------------
(* pcConnect *)

\* What is left of a connection whose thread has ended by itself is closed.
Stale == hReadingThread # NoConn

HandlesAfterStale ==
    IF Stale /\ hPipeClientSide # NoConn
    THEN [handles EXCEPT ![hPipeClientSide] = @ \ {"side"}]
    ELSE handles

\* The thread is working: OV_CLIENT_SIDE_CONNECTION_ALREADY_EXISTS.
MayConnect == owner = "idle" /\ (Stale => ~Reading(hReadingThread))

\* WaitNamedPipeW times out or finds no pipe.
ConnectNoPipe ==
    /\ MayConnect
    /\ hPipeClientSide' = IF Stale THEN NoConn ELSE hPipeClientSide
    /\ hReadingThread' = NoConn
    /\ handles' = HandlesAfterStale
    /\ m_hEventRead' = FALSE
    /\ UNCHANGED <<m_ShutDown, reader, error, server, owner>>

\* Another client was faster: CreateFileW fails.
ConnectRefused ==
    /\ MayConnect
    /\ hPipeClientSide' = NoConn
    /\ hReadingThread' = NoConn
    /\ handles' = HandlesAfterStale
    /\ m_hEventRead' = FALSE
    /\ UNCHANGED <<m_ShutDown, reader, error, server, owner>>

\* The pipe is open, but its handle is not duplicated or the thread not started.
\* What was opened stays open.
ConnectHalf(c) ==
    /\ MayConnect
    /\ Unused(c)
    /\ hPipeClientSide' = c
    /\ hReadingThread' = NoConn
    /\ m_hEventRead' = FALSE
    /\ server' = [server EXCEPT ![c] = "up"]
    /\ reader' = [reader EXCEPT ![c] = "none"]
    /\ \/ /\ handles' = [HandlesAfterStale EXCEPT ![c] = {"side"}]
          /\ UNCHANGED m_ShutDown
       \/ /\ handles' = [HandlesAfterStale EXCEPT ![c] = {"side", "dup"}]
          /\ m_ShutDown' = TRUE
    /\ UNCHANGED <<error, owner>>

\* Mutant: m_hEventRead keeps the signal of the disconnection before.
ConnectDoneKeepsEvent(c) ==
    /\ MayConnect
    /\ Unused(c)
    /\ hPipeClientSide' = c
    /\ hReadingThread' = c
    /\ m_ShutDown' = FALSE
    /\ handles' = [HandlesAfterStale EXCEPT ![c] = {"side", "dup"}]
    /\ reader' = [reader EXCEPT ![c] = "loop"]
    /\ error' = [error EXCEPT ![c] = FALSE]
    /\ server' = [server EXCEPT ![c] = "up"]
    /\ UNCHANGED <<m_hEventRead, owner>>

\* OV_CLIENT_SIDE_CONNECTED
ConnectDone(c) ==
    /\ MayConnect
    /\ Unused(c)
    /\ hPipeClientSide' = c
    /\ hReadingThread' = c
    /\ m_ShutDown' = FALSE
    /\ m_hEventRead' = FALSE
    /\ handles' = [HandlesAfterStale EXCEPT ![c] = {"side", "dup"}]
    /\ reader' = [reader EXCEPT ![c] = "loop"]
    /\ error' = [error EXCEPT ![c] = FALSE]
    /\ server' = [server EXCEPT ![c] = "up"]
    /\ UNCHANGED owner

-----------------------------------------------------------------------------
(* pcDisconnect, pcWait and the destructor *)

\* The handle is closed and the flag set...
DisconnectBegin ==
    /\ owner = "idle"
    /\ hPipeClientSide # NoConn
    /\ handles' = [handles EXCEPT ![hPipeClientSide] = @ \ {"side"}]
    /\ hPipeClientSide' = NoConn
    /\ m_ShutDown' = TRUE
    /\ owner' = "signal"
    /\ UNCHANGED <<hReadingThread, m_hEventRead, reader, error, server>>

\* Mutant: the reading thread is not woken.
DisconnectNoSignal ==
    /\ owner = "signal"
    /\ owner' = "wait"
    /\ UNCHANGED <<threadData, flags, conns>>

\* ... and then the event.
DisconnectSignal ==
    /\ owner = "signal"
    /\ m_hEventRead' = TRUE
    /\ owner' = "wait"
    /\ UNCHANGED <<threadData, m_ShutDown, conns>>

\* Mutant: the thread's handle is given up without waiting.
WaitNothing ==
    /\ owner = "wait"
    /\ hReadingThread' = NoConn
    /\ owner' = "idle"
    /\ UNCHANGED <<hPipeClientSide, flags, conns>>

\* pcWait: the reading thread has ended, then ClearThreadInfo.
Waited ==
    /\ owner = "wait"
    /\ hReadingThread # NoConn => ~Reading(hReadingThread)
    /\ hReadingThread' = NoConn
    /\ owner' = "idle"
    /\ UNCHANGED <<hPipeClientSide, flags, conns>>

\* Mutant: a manager that is not disconnected is destroyed.
DestroyAtOnce ==
    /\ owner = "idle"
    /\ owner' = "destroyed"
    /\ UNCHANGED <<threadData, flags, conns>>

\* ~COVPipeClientManager, after PipeClient's destructor has disconnected: the
\* disconnection finds no handle, and pcWait waits for a thread that is left.
Destroy ==
    /\ owner = "idle"
    /\ hPipeClientSide = NoConn
    /\ hReadingThread # NoConn => ~Reading(hReadingThread)
    /\ hReadingThread' = NoConn
    /\ owner' = "destroyed"
    /\ UNCHANGED <<hPipeClientSide, flags, conns>>

-----------------------------------------------------------------------------
(* OutputThreadProc *)

ReaderTo(c, p) == reader' = [reader EXCEPT ![c] = p]

\* while( false == m_ShutDown )
LoopTest(c) ==
    /\ reader[c] = "loop"
    /\ ReaderTo(c, IF m_ShutDown THEN "clean" ELSE "read")
    /\ UNCHANGED <<threadData, flags, handles, error, server, owner>>

\* ReadFileEx is accepted.
ReadIssue(c) ==
    /\ reader[c] = "read"
    /\ server[c] = "up"
    /\ ReaderTo(c, "wait")
    /\ UNCHANGED <<threadData, flags, handles, error, server, owner>>

\* ReadFileEx fails with an error the code does not name (ERROR_NOT_ENOUGH_MEMORY, ...).
ReadFails(c) ==
    /\ reader[c] = "read"
    /\ ReaderTo(c, "deaf")
    /\ UNCHANGED <<threadData, flags, handles, error, server, owner>>

\* "server is over": ReadFileEx fails with one of the three errors.
ReadLost(c) ==
    /\ reader[c] = "read"
    /\ server[c] = "gone"
    /\ m_ShutDown' = TRUE
    /\ error' = [error EXCEPT ![c] = TRUE]
    /\ ReaderTo(c, "loop")
    /\ UNCHANGED <<threadData, m_hEventRead, handles, server, owner>>

\* WAIT_IO_COMPLETION: a message, or the error of a read whose server went.
ReadCompletes(c) ==
    /\ reader[c] = "wait"
    /\ ReaderTo(c, "read")
    /\ UNCHANGED <<threadData, flags, handles, error, server, owner>>

\* WAIT_OBJECT_0
EventObserved(c) ==
    /\ reader[c] \in {"wait", "deaf"}
    /\ m_hEventRead
    /\ ReaderTo(c, "loop")
    /\ UNCHANGED <<threadData, flags, handles, error, server, owner>>

\* Mutant: the duplicate is not closed.
CloseNothing(c) ==
    /\ reader[c] = "clean"
    /\ ReaderTo(c, IF error[c] THEN "report" ELSE "ending")
    /\ UNCHANGED <<threadData, flags, handles, error, server, owner>>

\* The thread closes its own handle.
CloseDuplicate(c) ==
    /\ reader[c] = "clean"
    /\ handles' = [handles EXCEPT ![c] = @ \ {"dup"}]
    /\ ReaderTo(c, IF error[c] THEN "report" ELSE "ending")
    /\ UNCHANGED <<threadData, flags, error, server, owner>>

\* The handler of a lost server is called.
ReportLoss(c) ==
    /\ reader[c] = "report"
    /\ ReaderTo(c, "ending")
    /\ UNCHANGED <<threadData, flags, handles, error, server, owner>>

\* The thread's exit code is there and its handle is signalled.
ThreadEnds(c) ==
    /\ reader[c] = "ending"
    /\ ReaderTo(c, "over")
    /\ UNCHANGED <<threadData, flags, handles, error, server, owner>>

\* The server disconnects its end or closes it (once the client has closed its own,
\* nobody could tell).
ServerLeaves(c) ==
    /\ server[c] = "up" /\ handles[c] # {}
    /\ server' = [server EXCEPT ![c] = "gone"]
    /\ UNCHANGED <<threadData, flags, handles, reader, error, owner>>

-----------------------------------------------------------------------------

Connect ==
    ConnectNoPipe \/ ConnectRefused \/ \E c \in Conns : ConnectHalf(c) \/ ConnectDone(c)

Disconnect == DisconnectBegin \/ DisconnectSignal \/ Waited

ReadingThread(c) ==
    \/ LoopTest(c) \/ ReadIssue(c) \/ ReadFails(c) \/ ReadLost(c) \/ ReadCompletes(c)
    \/ EventObserved(c) \/ CloseDuplicate(c) \/ ReportLoss(c) \/ ThreadEnds(c)

PCMNext ==
    \/ Connect \/ Disconnect \/ Destroy
    \/ \E c \in Conns : ReadingThread(c) \/ ServerLeaves(c)

PCMSpec == PCMInit /\ [][PCMNext]_pcmVars

-----------------------------------------------------------------------------
(* Properties *)

\* At most one thread reads at a time, the one m_threadData has, so that the flag
\* and the event all connections share are for it.
OneReader == \A c \in Conns : Reading(c) => hReadingThread = c

\* An open handle has somebody who will close it: m_threadData the client's side,
\* the reading thread its duplicate.  Only a connection that was left half made
\* (no thread) can be lost.
HandlesAreOwned ==
    \A c \in Conns :
        reader[c] # "none" =>
            /\ "side" \in handles[c] => hPipeClientSide = c
            /\ "dup" \in handles[c] => Reading(c)

\* The flag and the event are not left over for the next reading thread.
ReaderStartsClean ==
    \A c \in Conns : Reading(c) /\ owner = "idle" => ~m_hEventRead /\ (m_ShutDown => error[c])

\* No reading thread uses a manager (and a PipeClient) that is destroyed.
DestroyedIsQuiet == owner = "destroyed" => \A c \in Conns : ~Reading(c)

=============================================================================
