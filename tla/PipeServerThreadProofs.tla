----------------------- MODULE PipeServerThreadProofs -----------------------
(***************************************************************************)
(* Safety of the server threads, for any number of instances, any messages *)
(* and inboxes of any length.  The inductive invariant PSTInv adds to the  *)
(* type invariant what the thread knows of its instance at each point of   *)
(* its loop, and how far psStopOverall has gone with each thread.          *)
(***************************************************************************)
EXTENDS PipeServerThread, TLAPS

\* States of an instance whose client was there, even if it is not any more.
Served == {"connected", "closing", "disconnected"}

\* Between a successful connect and the next one a client was there...
ServedWhileReading ==
    \A h \in Pipes : pc[h] \in {"read", "waitRead", "handler", "disconnect"} => pipe[h] \in Served

\* ... and the connect's event is a sign of it, also when DisconnectNamedPipe set it.
EventMeansServed == \A h \in Pipes : connEvt[h] => pipe[h] \in Served

\* A thread leaves only when it was told to, before its context goes.
LeavingIsStopped == \A h \in Pipes : pc[h] \in {"exit", "close", "gone"} => ~running[h]

ClosedMeansGone == \A h \in Pipes : pc[h] = "gone" => pipe[h] = "closed"

\* The phases of psStopOverall.
StopPhases ==
    /\ stopping = "no" => \A h \in Pipes : running[h]
    /\ stopping = "loop" => \A h \in Pipes : pc[h] \notin {"close", "gone"}
    /\ stopping \in {"wait", "done"} => \A h \in Pipes : ~running[h]
    /\ stopping = "done" => \A h \in Pipes : pc[h] = "gone"

PSTInv ==
    /\ PSTTypeOK
    /\ ServedWhileReading
    /\ EventMeansServed
    /\ LeavingIsStopped
    /\ ClosedMeansGone
    /\ StopPhases

-----------------------------------------------------------------------------

\* Every thread starts in its loop, with an instance nobody has opened.
LEMMA InitHasPSTInv == PSTInit => PSTInv
  BY PipeServerThreadAssumption
     DEF PSTInit, NamedPipeInit, PSTInv, PSTTypeOK, NamedPipeTypeOK, PipeStates, Points,
         ServedWhileReading, EventMeansServed, LeavingIsStopped, ClosedMeansGone, StopPhases

\* The type invariant by itself.
LEMMA TypeStep == PSTTypeOK /\ [PSTNext]_pstVars => PSTTypeOK'
<1> SUFFICES ASSUME PSTTypeOK, [PSTNext]_pstVars PROVE PSTTypeOK'
    OBVIOUS
<1> USE PipeServerThreadAssumption
        DEF PSTTypeOK, NamedPipeTypeOK, PipeStates, Points, threadVars, pipeVars, Go
<1>1. ASSUME NEW h \in Pipes, ServerThread(h) PROVE PSTTypeOK'
  <2>1. CASE LoopTest(h) \/ ConnectTimeout(h) \/ ReadIssue(h) \/ ReadRefused(h)
             \/ ReadError(h) \/ StopObserved(h) \/ LeavePool(h)
    BY <2>1 DEF LoopTest, ConnectTimeout, ReadIssue, ReadRefused, ReadError, StopObserved, LeavePool
  <2>2. CASE ConnectPending(h)
    BY <2>2 DEF ConnectPending, Listen
  <2>3. CASE ConnectAlready(h) \/ ConnectNoData(h) \/ ConnectDone(h) \/ ResetAfterTimeout(h)
    BY <2>3 DEF ConnectAlready, ConnectNoData, ConnectDone, ResetAfterTimeout
  <2>4. CASE ReadMessage(h)
    <3>1. inbox[h] \in Seq(Msgs) /\ inbox[h] # <<>>
      BY <2>4 DEF ReadMessage, Readable
    <3>2. Head(inbox[h]) \in Msgs /\ Tail(inbox[h]) \in Seq(Msgs)
      BY <3>1
    <3> QED BY <2>4, <3>2 DEF ReadMessage
  <2>5. CASE DisconnectPipe(h)
    BY <2>5 DEF DisconnectPipe, DisconnectNamedPipe
  <2>6. CASE CloseContext(h)
    BY <2>6 DEF CloseContext
  <2> QED BY <1>1, <2>1, <2>2, <2>3, <2>4, <2>5, <2>6 DEF ServerThread
<1>2. ASSUME NEW h \in Pipes, Callbacks(h) PROVE PSTTypeOK'
  BY <1>2 DEF Callbacks, HandlerReturn, OnDisconnectReturn
<1>3. ASSUME NEW h \in Pipes, ForceDisconnect(h) PROVE PSTTypeOK'
  BY <1>3 DEF ForceDisconnect, DisconnectNamedPipe
<1>4. ASSUME NEW h \in Pipes, Client(h) PROVE PSTTypeOK'
  <2>1. CASE ClientOpen(h)
    BY <1>4, <2>1 DEF Client, ClientOpen
  <2>2. ASSUME NEW m \in Msgs, ClientWrite(h, m) PROVE PSTTypeOK'
    BY <1>4, <2>2 DEF Client, ClientWrite
  <2>3. CASE ClientClose(h)
    BY <1>4, <2>3 DEF Client, ClientClose
  <2> QED BY <1>4, <2>1, <2>2, <2>3 DEF Client
<1>5. CASE StopOverall
  BY <1>5 DEF StopOverall, StopBegin, StopSignal, StopClear, StopUnlock, StopWaited
<1>6. CASE UNCHANGED pstVars
  BY <1>6 DEF pstVars
<1> QED BY <1>1, <1>2, <1>3, <1>4, <1>5, <1>6 DEF PSTNext, PSTTerminated

\* What the other parts of the invariant need of a step of h on another instance.
LEMMA OthersKeep ==
    ASSUME PSTTypeOK, NEW h \in Pipes, NEW g \in Pipes, g # h,
           ServerThread(h) \/ Callbacks(h) \/ ForceDisconnect(h) \/ Client(h)
    PROVE  /\ pc'[g] = pc[g] /\ pipe'[g] = pipe[g] /\ connEvt'[g] = connEvt[g]
           /\ running'[g] = running[g]
<1> USE DEF PSTTypeOK, NamedPipeTypeOK, threadVars, pipeVars, Go
<1>1. CASE ServerThread(h)
  BY <1>1 DEF ServerThread, LoopTest, ConnectPending, Listen, ConnectAlready, ConnectNoData,
              ConnectDone, ConnectTimeout, ResetAfterTimeout, ReadIssue, ReadRefused,
              ReadMessage, ReadError, StopObserved, DisconnectPipe, DisconnectNamedPipe,
              LeavePool, CloseContext
<1>2. CASE Callbacks(h)
  BY <1>2 DEF Callbacks, HandlerReturn, OnDisconnectReturn
<1>3. CASE ForceDisconnect(h)
  BY <1>3 DEF ForceDisconnect, DisconnectNamedPipe
<1>4. CASE Client(h)
  BY <1>4 DEF Client, ClientOpen, ClientWrite, ClientClose
<1> QED BY <1>1, <1>2, <1>3, <1>4

\* The instance of the thread that moves: its state still fits its new point.
LEMMA MoverKeeps ==
    ASSUME PSTInv, NEW h \in Pipes,
           ServerThread(h) \/ Callbacks(h) \/ ForceDisconnect(h) \/ Client(h)
    PROVE  /\ pc'[h] \in {"read", "waitRead", "handler", "disconnect"} => pipe'[h] \in Served
           /\ connEvt'[h] => pipe'[h] \in Served
           /\ pc'[h] \in {"exit", "close", "gone"} => ~running[h]
           /\ pc'[h] = "gone" => pipe'[h] = "closed"
           /\ pc'[h] \in {"close", "gone"} =>
                pc[h] \in {"close", "gone"} \/ stopping # "loop"
           /\ pc[h] = "gone" => pc'[h] = "gone"
           /\ running' = running /\ stopping' = stopping
<1> USE DEF PSTInv, PSTTypeOK, NamedPipeTypeOK, threadVars, pipeVars, Go, Served, PipeStates,
            ServedWhileReading, EventMeansServed, LeavingIsStopped, ClosedMeansGone
<1>1. CASE LoopTest(h) \/ ConnectTimeout(h) \/ ReadError(h) \/ StopObserved(h) \/ LeavePool(h)
  BY <1>1 DEF LoopTest, ConnectTimeout, ReadError, StopObserved, LeavePool
<1>2. CASE ConnectPending(h)
  BY <1>2 DEF ConnectPending, Listen
<1>3. CASE ConnectAlready(h) \/ ConnectNoData(h) \/ ConnectDone(h) \/ ResetAfterTimeout(h)
  BY <1>3 DEF ConnectAlready, ConnectNoData, ConnectDone, ResetAfterTimeout
<1>4. CASE ReadIssue(h) \/ ReadRefused(h)
  BY <1>4 DEF ReadIssue, ReadRefused
<1>5. CASE ReadMessage(h)
  BY <1>5 DEF ReadMessage
<1>6. CASE DisconnectPipe(h) \/ ForceDisconnect(h)
  BY <1>6 DEF DisconnectPipe, ForceDisconnect, DisconnectNamedPipe
<1>7. CASE CloseContext(h)
  BY <1>7 DEF CloseContext
<1>8. CASE Callbacks(h)
  BY <1>8 DEF Callbacks, HandlerReturn, OnDisconnectReturn
<1>9. CASE Client(h)
  BY <1>9 DEF Client, ClientOpen, ClientWrite, ClientClose
<1> QED BY <1>1, <1>2, <1>3, <1>4, <1>5, <1>6, <1>7, <1>8, <1>9 DEF ServerThread

\* Every step keeps the invariant.
LEMMA PSTInvStep == PSTInv /\ [PSTNext]_pstVars => PSTInv'
<1> SUFFICES ASSUME PSTInv, [PSTNext]_pstVars PROVE PSTInv'
    OBVIOUS
<1>0. PSTTypeOK'
  BY TypeStep DEF PSTInv
<1>1. ASSUME NEW h \in Pipes,
             ServerThread(h) \/ Callbacks(h) \/ ForceDisconnect(h) \/ Client(h)
      PROVE  PSTInv'
  <2>1. \A g \in Pipes : g # h => /\ pc'[g] = pc[g] /\ pipe'[g] = pipe[g]
                                  /\ connEvt'[g] = connEvt[g] /\ running'[g] = running[g]
    BY <1>1, OthersKeep DEF PSTInv
  <2>2. /\ pc'[h] \in {"read", "waitRead", "handler", "disconnect"} => pipe'[h] \in Served
        /\ connEvt'[h] => pipe'[h] \in Served
        /\ pc'[h] \in {"exit", "close", "gone"} => ~running[h]
        /\ pc'[h] = "gone" => pipe'[h] = "closed"
        /\ pc'[h] \in {"close", "gone"} => pc[h] \in {"close", "gone"} \/ stopping # "loop"
        /\ pc[h] = "gone" => pc'[h] = "gone"
        /\ running' = running /\ stopping' = stopping
    BY <1>1, MoverKeeps
  <2>3. ServedWhileReading' /\ EventMeansServed' /\ ClosedMeansGone'
    BY <2>1, <2>2 DEF PSTInv, ServedWhileReading, EventMeansServed, ClosedMeansGone
  <2>4. LeavingIsStopped' /\ StopPhases'
    BY <2>1, <2>2 DEF PSTInv, LeavingIsStopped, StopPhases
  <2> QED BY <1>0, <2>3, <2>4 DEF PSTInv
<1>2. CASE StopOverall
  <2>1. UNCHANGED <<pipe, connEvt, pc>>
    BY <1>2 DEF StopOverall, StopBegin, StopSignal, StopClear, StopUnlock, StopWaited, pipeVars
  <2>2. ServedWhileReading' /\ EventMeansServed' /\ ClosedMeansGone'
    BY <2>1 DEF PSTInv, ServedWhileReading, EventMeansServed, ClosedMeansGone
  <2>3. LeavingIsStopped' /\ StopPhases'
    BY <1>2, <2>1 DEF PSTInv, PSTTypeOK, LeavingIsStopped, StopPhases, StopOverall, StopBegin,
                      StopSignal, StopClear, StopUnlock, StopWaited
  <2> QED BY <1>0, <2>2, <2>3 DEF PSTInv
<1>3. CASE UNCHANGED pstVars
  BY <1>0, <1>3 DEF pstVars, threadVars, pipeVars, PSTInv, ServedWhileReading,
                    EventMeansServed, LeavingIsStopped, ClosedMeansGone, StopPhases
<1> QED BY <1>1, <1>2, <1>3 DEF PSTNext, PSTTerminated

\* The invariant of the server threads, in every reachable state.
LEMMA PSTInvHolds == PSTSpec => []PSTInv
  BY InitHasPSTInv, PSTInvStep, PTL DEF PSTSpec

-----------------------------------------------------------------------------

\* The variables of the server threads keep their types, and a thread has a message
\* in hand exactly while it is in the handler.
THEOREM PSTTypeCorrect == PSTSpec => []PSTTypeOK
<1>1. PSTInv => PSTTypeOK
  BY DEF PSTInv
<1> QED BY <1>1, PSTInvHolds, PTL

\* ServerThreadProc's branch that retries a failed ReadFileEx at once (lines
\* 445-448) is never taken.
THEOREM ReadsNeverSpin == PSTSpec => []ReadNeverSpins
<1>1. PSTInv => ReadNeverSpins
  BY DEF PSTInv, ServedWhileReading, Served, ReadNeverSpins
<1> QED BY <1>1, PSTInvHolds, PTL

\* psStopOverall never touches a context that its thread has destroyed, and every
\* instance is closed when it returns.
THEOREM StopIsSafe == PSTSpec => []ContextsOutliveStop
<1>1. PSTInv => ContextsOutliveStop
  BY DEF PSTInv, ClosedMeansGone, StopPhases, ContextsOutliveStop
<1> QED BY <1>1, PSTInvHolds, PTL

=============================================================================
