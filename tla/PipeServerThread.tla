-------------------------- MODULE PipeServerThread --------------------------
(***************************************************************************)
(* COVPipeServerManager's server threads: ServerThreadProc, with           *)
(* check_connection_result and disconnect_pipe, one thread per instance of *)
(* the pipe, and psStopOverall, which makes all of them leave.             *)
(* src/winapiPipe/OVPipeServerManager.h                                    *)
(*                                                                         *)
(* The owner (class Server) is seen through the two points at which the    *)
(* manager calls it: "handler" (a completed read went through MakeEnvelop  *)
(* to a linked action) and "onDisconnect" (the handler psLinkOnDisconnect- *)
(* Handler set).  Here they just return; ImageServer says what they do.    *)
(***************************************************************************)
EXTENDS NamedPipe

VARIABLES
    pc,       \* where the server thread of each instance is
    cmd,      \* the message the thread of h is handling
    running,  \* THRDSVRCONTEXT::bShutDown, which is true while the thread may run
    stopEvt,  \* THRDSVRCONTEXT::twoEvents, manual-reset, set by Shutdown
    stopping  \* where psStopOverall is

threadVars == <<pc, cmd, running, stopEvt, stopping>>
pstVars == <<pipeVars, threadVars>>

NoMsg == "NoMsg"

ASSUME PipeServerThreadAssumption == NoMsg \notin Msgs

Points == {"loop", "connect", "waitConn", "resetEvt", "read", "waitRead", "handler",
           "disconnect", "onDisconnect", "exit", "close", "gone"}

PSTTypeOK ==
    /\ NamedPipeTypeOK
    /\ pc \in [Pipes -> Points]
    /\ cmd \in [Pipes -> Msgs \cup {NoMsg}]
    /\ \A h \in Pipes : cmd[h] = NoMsg <=> pc[h] # "handler"
    /\ running \in [Pipes -> BOOLEAN]
    /\ stopEvt \in [Pipes -> BOOLEAN]
    /\ stopping \in {"no", "loop", "wait", "done"}

\* psRun was called for every instance: its thread is created and resumed.
PSTInit ==
    /\ NamedPipeInit
    /\ pc = [h \in Pipes |-> "loop"]
    /\ cmd = [h \in Pipes |-> NoMsg]
    /\ running = [h \in Pipes |-> TRUE]
    /\ stopEvt = [h \in Pipes |-> FALSE]
    /\ stopping = "no"

Go(h, p) == pc' = [pc EXCEPT ![h] = p]

-----------------------------------------------------------------------------
(* check_connection_result *)

\* while( pSvrContext.IsRunning() )
LoopTest(h) ==
    /\ pc[h] = "loop"
    /\ Go(h, IF running[h] THEN "connect" ELSE "exit")
    /\ UNCHANGED <<pipeVars, cmd, running, stopEvt, stopping>>

\* ERROR_IO_PENDING: wait for the event.
ConnectPending(h) ==
    /\ pc[h] = "connect"
    /\ Listen(h)
    /\ Go(h, "waitConn")
    /\ UNCHANGED <<cmd, running, stopEvt, stopping>>

\* Mutant: an early client is waited for like any other.
ConnectAlreadyWaits(h) ==
    /\ pc[h] = "connect"
    /\ pipe[h] = "connected"
    /\ connEvt' = [connEvt EXCEPT ![h] = FALSE]
    /\ Go(h, "waitConn")
    /\ UNCHANGED <<pipe, inbox, cmd, running, stopEvt, stopping>>

\* ERROR_PIPE_CONNECTED: the client came before the call; the connection is good.
ConnectAlready(h) ==
    /\ pc[h] = "connect"
    /\ pipe[h] = "connected"
    /\ connEvt' = [connEvt EXCEPT ![h] = FALSE]
    /\ Go(h, "read")
    /\ UNCHANGED <<pipe, inbox, cmd, running, stopEvt, stopping>>

\* ERROR_NO_DATA: a client came and went before the call.  The code takes every
\* error other than ERROR_PIPE_CONNECTED for a pending connect, and waits.
ConnectNoData(h) ==
    /\ pc[h] = "connect"
    /\ pipe[h] = "closing"
    /\ connEvt' = [connEvt EXCEPT ![h] = FALSE]
    /\ Go(h, "waitConn")
    /\ UNCHANGED <<pipe, inbox, cmd, running, stopEvt, stopping>>

\* WAIT_OBJECT_0, then ResetEvent.
ConnectDone(h) ==
    /\ pc[h] = "waitConn"
    /\ connEvt[h]
    /\ connEvt' = [connEvt EXCEPT ![h] = FALSE]
    /\ Go(h, "read")
    /\ UNCHANGED <<pipe, inbox, cmd, running, stopEvt, stopping>>

\* Mutant: the timeout is taken for a connection (the test commented out in line 426).
ConnectTimeoutReads(h) ==
    /\ pc[h] = "waitConn"
    /\ ~connEvt[h]
    /\ Go(h, "read")
    /\ UNCHANGED <<pipeVars, cmd, running, stopEvt, stopping>>

\* WAIT_TIMEOUT after SPS_OV_CONNECT_TIMEOUT...
ConnectTimeout(h) ==
    /\ pc[h] = "waitConn"
    /\ ~connEvt[h]
    /\ Go(h, "resetEvt")
    /\ UNCHANGED <<pipeVars, cmd, running, stopEvt, stopping>>

\* ... then ResetEvent: a client that came in between loses its signal.
ResetAfterTimeout(h) ==
    /\ pc[h] = "resetEvt"
    /\ connEvt' = [connEvt EXCEPT ![h] = FALSE]
    /\ Go(h, "loop")
    /\ UNCHANGED <<pipe, inbox, cmd, running, stopEvt, stopping>>

-----------------------------------------------------------------------------
(* The read loop *)

\* ReadFileEx is accepted.
ReadIssue(h) ==
    /\ pc[h] = "read"
    /\ pipe[h] = "connected" \/ Readable(h)
    /\ Go(h, "waitRead")
    /\ UNCHANGED <<pipeVars, cmd, running, stopEvt, stopping>>

\* Mutant: the read loop ends without disconnect_pipe.
ReadRefusedKeepsPipe(h) ==
    /\ pc[h] = "read"
    /\ ReadFails(h)
    /\ Go(h, "loop")
    /\ UNCHANGED <<pipeVars, cmd, running, stopEvt, stopping>>

\* ReadFileEx fails with one of the three errors that mean "pipe is closed".  On
\* any other error (ERROR_PIPE_LISTENING, ERROR_INVALID_HANDLE) the code tries
\* again at once: a step that changes nothing, so the thread only stutters here
\* (see ReadNeverSpins).
ReadRefused(h) ==
    /\ pc[h] = "read"
    /\ ReadFails(h)
    /\ Go(h, "disconnect")
    /\ UNCHANGED <<pipeVars, cmd, running, stopEvt, stopping>>

\* WAIT_IO_COMPLETION: CompleteIOProc ran with a message.
ReadMessage(h) ==
    /\ pc[h] = "waitRead"
    /\ Readable(h)
    /\ cmd' = [cmd EXCEPT ![h] = Head(inbox[h])]
    /\ inbox' = [inbox EXCEPT ![h] = Tail(@)]
    /\ Go(h, "handler")
    /\ UNCHANGED <<pipe, connEvt, running, stopEvt, stopping>>

\* WAIT_IO_COMPLETION with an error and no bytes: MakeEnvelop ignores it.
ReadError(h) ==
    /\ pc[h] = "waitRead"
    /\ ReadFails(h)
    /\ Go(h, "read")
    /\ UNCHANGED <<pipeVars, cmd, running, stopEvt, stopping>>

\* Mutant: bComplete is not reset after the stop event.
StopObservedReadsOn(h) ==
    /\ pc[h] = "waitRead"
    /\ stopEvt[h]
    /\ Go(h, "read")
    /\ UNCHANGED <<pipeVars, cmd, running, stopEvt, stopping>>

\* Mutant: the thread leaves the read loop without disconnect_pipe.
StopObservedKeepsPipe(h) ==
    /\ pc[h] = "waitRead"
    /\ stopEvt[h]
    /\ Go(h, "loop")
    /\ UNCHANGED <<pipeVars, cmd, running, stopEvt, stopping>>

\* WAIT_OBJECT_0: the event Shutdown signals.
StopObserved(h) ==
    /\ pc[h] = "waitRead"
    /\ stopEvt[h]
    /\ Go(h, "disconnect")
    /\ UNCHANGED <<pipeVars, cmd, running, stopEvt, stopping>>

\* The linked action returns, and with it the completion routine.
HandlerReturn(h) ==
    /\ pc[h] = "handler"
    /\ cmd' = [cmd EXCEPT ![h] = NoMsg]
    /\ Go(h, "read")
    /\ UNCHANGED <<pipeVars, running, stopEvt, stopping>>

\* disconnect_pipe, called by the server thread.
DisconnectPipe(h) ==
    /\ pc[h] = "disconnect"
    /\ DisconnectNamedPipe(h)
    /\ Go(h, "onDisconnect")
    /\ UNCHANGED <<cmd, running, stopEvt, stopping>>

OnDisconnectReturn(h) ==
    /\ pc[h] = "onDisconnect"
    /\ Go(h, "loop")
    /\ UNCHANGED <<pipeVars, cmd, running, stopEvt, stopping>>

\* Mutant: the thread leaves without m_auxLockObject.
LeavePoolUnlocked(h) ==
    /\ pc[h] = "exit"
    /\ Go(h, "close")
    /\ UNCHANGED <<pipeVars, cmd, running, stopEvt, stopping>>

\* m_pool_map.erase under m_auxLockObject, which psStopOverall holds in its loop.
LeavePool(h) ==
    /\ pc[h] = "exit"
    /\ stopping # "loop"
    /\ Go(h, "close")
    /\ UNCHANGED <<pipeVars, cmd, running, stopEvt, stopping>>

\* ~THRDSVRCONTEXT: disconnect and close the handle; the thread ends.
CloseContext(h) ==
    /\ pc[h] = "close"
    /\ pipe' = [pipe EXCEPT ![h] = "closed"]
    /\ inbox' = [inbox EXCEPT ![h] = <<>>]
    /\ connEvt' = [connEvt EXCEPT ![h] = FALSE]
    /\ Go(h, "gone")
    /\ UNCHANGED <<cmd, running, stopEvt, stopping>>

\* disconnect_pipe called by some other thread of the owner.
ForceDisconnect(h) ==
    /\ DisconnectNamedPipe(h)
    /\ UNCHANGED threadVars

-----------------------------------------------------------------------------
(* psStopOverall *)

StopBegin ==
    /\ stopping = "no"
    /\ stopping' = "loop"
    /\ UNCHANGED <<pipeVars, pc, cmd, running, stopEvt>>

\* Shutdown of one context, first half: SignalEvents.
StopSignal(h) ==
    /\ stopping = "loop"
    /\ ~stopEvt[h]
    /\ \A g \in Pipes : stopEvt[g] => ~running[g]
    /\ stopEvt' = [stopEvt EXCEPT ![h] = TRUE]
    /\ UNCHANGED <<pipeVars, pc, cmd, running, stopping>>

\* Second half: bShutDown = false.
StopClear(h) ==
    /\ stopping = "loop"
    /\ stopEvt[h] /\ running[h]
    /\ running' = [running EXCEPT ![h] = FALSE]
    /\ UNCHANGED <<pipeVars, pc, cmd, stopEvt, stopping>>

\* The map is cleared and the lock released.
StopUnlock ==
    /\ stopping = "loop"
    /\ \A h \in Pipes : ~running[h]
    /\ stopping' = "wait"
    /\ UNCHANGED <<pipeVars, pc, cmd, running, stopEvt>>

\* c_wait_and_free_handle on every thread.
StopWaited ==
    /\ stopping = "wait"
    /\ \A h \in Pipes : pc[h] = "gone"
    /\ stopping' = "done"
    /\ UNCHANGED <<pipeVars, pc, cmd, running, stopEvt>>

-----------------------------------------------------------------------------

\* The steps of the thread of h outside the owner's callbacks.
ServerThread(h) ==
    \/ LoopTest(h) \/ ConnectPending(h) \/ ConnectAlready(h) \/ ConnectNoData(h)
    \/ ConnectDone(h) \/ ConnectTimeout(h) \/ ResetAfterTimeout(h)
    \/ ReadIssue(h) \/ ReadRefused(h)
    \/ ReadMessage(h) \/ ReadError(h) \/ StopObserved(h)
    \/ DisconnectPipe(h) \/ LeavePool(h) \/ CloseContext(h)

Callbacks(h) == HandlerReturn(h) \/ OnDisconnectReturn(h)

StopOverall ==
    \/ StopBegin \/ StopUnlock \/ StopWaited
    \/ \E h \in Pipes : StopSignal(h) \/ StopClear(h)

Client(h) ==
    /\ ClientOpen(h) \/ (\E m \in Msgs : ClientWrite(h, m)) \/ ClientClose(h)
    /\ UNCHANGED threadVars

\* psStopOverall returned: nothing is left to do.
PSTTerminated == stopping = "done" /\ UNCHANGED pstVars

PSTNext ==
    \/ \E h \in Pipes : ServerThread(h) \/ Callbacks(h) \/ ForceDisconnect(h) \/ Client(h)
    \/ StopOverall
    \/ PSTTerminated

PSTSpec == PSTInit /\ [][PSTNext]_pstVars

\* Threads run; the owner's callbacks return; a started psStopOverall goes on.
\* A signalled stop event is not passed over for ever for the messages of a
\* client that never pauses (the wait looks at its event before it runs an APC).
PSTFairness ==
    /\ \A h \in Pipes : WF_pstVars(ServerThread(h)) /\ WF_pstVars(Callbacks(h))
    /\ \A h \in Pipes : SF_pstVars(StopObserved(h))
    /\ WF_pstVars(stopping # "no" /\ StopOverall)

PSTFairSpec == PSTSpec /\ PSTFairness

-----------------------------------------------------------------------------
(* Properties *)

\* The branch that retries a failed read at once (a busy loop, lines 445-448) is
\* never taken: when the thread comes to ReadFileEx, the instance is connected,
\* left by its client or disconnected, whatever raced with the connect, its
\* timeout and the reset of its event, and whoever disconnected it meanwhile.
ReadNeverSpins ==
    \A h \in Pipes : pc[h] = "read" => pipe[h] \in {"connected", "closing", "disconnected"}

\* psStopOverall touches a context only while its thread cannot have destroyed
\* it, and returns only when every thread destroyed its own.
ContextsOutliveStop ==
    /\ stopping = "loop" => \A h \in Pipes : pc[h] \notin {"close", "gone"}
    /\ stopping = "done" => \A h \in Pipes : pipe[h] = "closed"

\* A thread waits in check_connection_result only for something that can come: a
\* client may still open the instance, or the event is already signalled.
AwaitedClientCanCome ==
    \A h \in Pipes : pc[h] = "waitConn" => pipe[h] = "listening" \/ connEvt[h]

\* A client that opened the instance is read from, even if it came between the
\* timeout and the reset of the event, unless it leaves, is disconnected, or the
\* manager stops.
ConnectedClientIsRead ==
    \A h \in Pipes :
        pipe[h] = "connected" ~>
            (pc[h] \in {"waitRead", "handler"} \/ pipe[h] # "connected" \/ stopping # "no")

\* Once a read was issued for a client, the instance serves the next client
\* after this one has left, unless the manager stops.
InstanceIsRecycled ==
    \A h \in Pipes :
        (pc[h] \in {"read", "waitRead", "handler"} /\ pipe[h] = "closing") ~>
            (pipe[h] = "listening" \/ stopping # "no")

\* psStopOverall returns, whatever the clients do.
StopReturns == stopping = "loop" ~> stopping = "done"

=============================================================================
