------------------------- MODULE ClientWindowProofs -------------------------
(***************************************************************************)
(* Safety of the client manager and of the window, for any number of       *)
(* connections.  The first part is about PipeClientManager, for an owner   *)
(* that calls pcConnect and pcDisconnect in any order; PCMInv adds to the  *)
(* properties how the two handles of m_threadData go together.  The steps  *)
(* of the window are steps of such an owner, so that the manager's         *)
(* theorems hold; WindowInv relates the buttons to the connection.         *)
(***************************************************************************)
EXTENDS ClientWindow, TLAPS

-----------------------------------------------------------------------------
(* The client manager *)

\* Between two calls the handles are of one connection; a client's side without a
\* thread is of a connection left half made; while the owner is in pcDisconnect
\* the side is closed, and at the end nothing is left.
HandlesAgree ==
    /\ owner = "idle" /\ hReadingThread # NoConn => hPipeClientSide = hReadingThread
    /\ hPipeClientSide # NoConn /\ hReadingThread = NoConn => reader[hPipeClientSide] = "none"
    /\ owner # "idle" => hPipeClientSide = NoConn
    /\ owner = "destroyed" => hReadingThread = NoConn

\* The thread closes its duplicate before it reports and ends.
DuplicateWhileReading ==
    \A c \in Conns :
        "dup" \in handles[c] => reader[c] \in {"none", "loop", "read", "wait", "deaf", "clean"}

PCMInv ==
    /\ PCMTypeOK
    /\ HandlesAgree
    /\ OneReader
    /\ DuplicateWhileReading
    /\ HandlesAreOwned
    /\ ReaderStartsClean

-----------------------------------------------------------------------------

\* No connection yet, so nothing to agree on.
LEMMA InitHasPCMInv == PCMInit => PCMInv
  BY PipeClientManagerAssumption
     DEF PCMInit, PCMInv, PCMTypeOK, ReaderPoints, HandlesAgree, OneReader, Reading,
         DuplicateWhileReading, HandlesAreOwned, ReaderStartsClean

\* pcConnect gets past its first test only when no thread reads.
LEMMA NobodyReads ==
    ASSUME PCMInv, MayConnect
    PROVE  /\ \A c \in Conns : ~Reading(c)
           /\ owner = "idle"
           /\ HandlesAfterStale \in [Conns -> SUBSET {"side", "dup"}]
           /\ \A c \in Conns : /\ HandlesAfterStale[c] \subseteq handles[c]
                               /\ reader[c] # "none" => "side" \notin HandlesAfterStale[c]
<1> USE PipeClientManagerAssumption DEF PCMInv, MayConnect, Stale
<1>1. (\A c \in Conns : ~Reading(c)) /\ owner = "idle"
  BY DEF OneReader
<1>2. HandlesAfterStale \in [Conns -> SUBSET {"side", "dup"}]
  BY DEF HandlesAfterStale, PCMTypeOK
<1>3. ASSUME NEW c \in Conns
      PROVE  /\ HandlesAfterStale[c] \subseteq handles[c]
             /\ reader[c] # "none" => "side" \notin HandlesAfterStale[c]
  BY <1>1 DEF HandlesAfterStale, PCMTypeOK, HandlesAgree, HandlesAreOwned
<1> QED BY <1>1, <1>2, <1>3

\* pcConnect: the handle, the events and the reading thread of a new connection.
LEMMA ConnectKeeps ==
    ASSUME PCMInv, Connect
    PROVE  PCMInv'
<1> USE PipeClientManagerAssumption
<1>0. MayConnect
  BY DEF Connect, ConnectNoPipe, ConnectRefused, ConnectHalf, ConnectDone
<1> DEFINE H == HandlesAfterStale
<1>1. /\ \A c \in Conns : ~Reading(c)
      /\ owner = "idle"
      /\ H \in [Conns -> SUBSET {"side", "dup"}]
      /\ \A c \in Conns : H[c] \subseteq handles[c] /\ (reader[c] # "none" => "side" \notin H[c])
  BY <1>0, NobodyReads
<1> HIDE DEF H
<1>2. /\ PCMTypeOK /\ HandlesAgree /\ DuplicateWhileReading
      /\ \A c \in Conns : reader[c] # "none" => "dup" \notin H[c]
  BY <1>1 DEF PCMInv, DuplicateWhileReading, Reading
<1>3. CASE ConnectNoPipe \/ ConnectRefused
  <2>1. /\ hPipeClientSide' \in {NoConn, hPipeClientSide}
        /\ hPipeClientSide' # NoConn => hReadingThread = NoConn
        /\ hReadingThread' = NoConn /\ handles' = H /\ m_hEventRead' = FALSE
        /\ UNCHANGED <<m_ShutDown, reader, error, server, owner>>
    BY <1>3 DEF ConnectNoPipe, ConnectRefused, Stale, H
  <2>2. PCMTypeOK'
    BY <1>1, <1>2, <2>1 DEF PCMTypeOK
  <2>3. HandlesAgree'
    BY <1>1, <1>2, <2>1 DEF HandlesAgree
  <2>4. (OneReader /\ ReaderStartsClean)'
    BY <1>1, <2>1 DEF OneReader, ReaderStartsClean, Reading
  <2>5. (DuplicateWhileReading /\ HandlesAreOwned)'
    BY <1>1, <1>2, <2>1 DEF DuplicateWhileReading, HandlesAreOwned, Reading
  <2> QED BY <2>2, <2>3, <2>4, <2>5 DEF PCMInv
<1>4. ASSUME NEW c \in Conns, ConnectHalf(c) PROVE PCMInv'
  <2>1. /\ hPipeClientSide' = c /\ hReadingThread' = NoConn
        /\ m_ShutDown' \in BOOLEAN /\ m_hEventRead' = FALSE
        /\ \E s \in {{"side"}, {"side", "dup"}} : handles' = [H EXCEPT ![c] = s]
        /\ reader' = [reader EXCEPT ![c] = "none"]
        /\ server' = [server EXCEPT ![c] = "up"]
        /\ UNCHANGED <<error, owner>>
    BY <1>2, <1>4 DEF ConnectHalf, H, PCMTypeOK
  <2>2. PCMTypeOK'
    <3>1. PICK s \in {{"side"}, {"side", "dup"}} : handles' = [H EXCEPT ![c] = s]
      BY <2>1
    <3>2. handles' \in [Conns -> SUBSET {"side", "dup"}]
      BY <1>1, <3>1
    <3>3. reader' \in [Conns -> ReaderPoints] /\ server' \in [Conns -> {"none", "up", "gone"}]
      BY <1>2, <2>1 DEF PCMTypeOK, ReaderPoints
    <3> QED BY <1>2, <2>1, <3>2, <3>3 DEF PCMTypeOK
  <2>3. HandlesAgree'
    BY <1>1, <1>2, <2>1 DEF HandlesAgree, PCMTypeOK
  <2>4. (OneReader /\ ReaderStartsClean)'
    BY <1>1, <1>2, <2>1 DEF OneReader, ReaderStartsClean, Reading, PCMTypeOK
  <2>5. (DuplicateWhileReading /\ HandlesAreOwned)'
    BY <1>1, <1>2, <2>1 DEF DuplicateWhileReading, HandlesAreOwned, Reading, PCMTypeOK
  <2> QED BY <2>2, <2>3, <2>4, <2>5 DEF PCMInv
<1>5. ASSUME NEW c \in Conns, ConnectDone(c) PROVE PCMInv'
  <2>1. /\ hPipeClientSide' = c /\ hReadingThread' = c
        /\ m_ShutDown' = FALSE /\ m_hEventRead' = FALSE
        /\ handles' = [H EXCEPT ![c] = {"side", "dup"}]
        /\ reader' = [reader EXCEPT ![c] = "loop"]
        /\ error' = [error EXCEPT ![c] = FALSE]
        /\ server' = [server EXCEPT ![c] = "up"]
        /\ owner' = owner
    BY <1>5 DEF ConnectDone, H
  <2>2. PCMTypeOK'
    BY <1>1, <1>2, <2>1 DEF PCMTypeOK, ReaderPoints
  <2>3. HandlesAgree'
    BY <1>1, <2>1 DEF HandlesAgree
  <2>4. (OneReader /\ ReaderStartsClean)'
    BY <1>1, <1>2, <2>1 DEF OneReader, ReaderStartsClean, Reading, PCMTypeOK
  <2>5. (DuplicateWhileReading /\ HandlesAreOwned)'
    BY <1>1, <1>2, <2>1 DEF DuplicateWhileReading, HandlesAreOwned, Reading, PCMTypeOK
  <2> QED BY <2>2, <2>3, <2>4, <2>5 DEF PCMInv
<1> QED BY <1>3, <1>4, <1>5 DEF Connect

\* pcDisconnect and the destructor end the reading thread before the handle goes.
LEMMA DisconnectKeeps ==
    ASSUME PCMInv, Disconnect \/ Destroy
    PROVE  PCMInv'
<1> USE PipeClientManagerAssumption
        DEF PCMInv, PCMTypeOK, ReaderPoints, HandlesAgree, OneReader, Reading,
            DuplicateWhileReading, HandlesAreOwned, ReaderStartsClean, threadData, flags, conns
<1>1. CASE DisconnectBegin
  BY <1>1 DEF DisconnectBegin
<1>2. CASE DisconnectSignal
  BY <1>2 DEF DisconnectSignal
<1>3. CASE Waited
  BY <1>3 DEF Waited
<1>4. CASE Destroy
  BY <1>4 DEF Destroy
<1> QED BY <1>1, <1>2, <1>3, <1>4 DEF Disconnect

\* The reading thread, and the server that leaves.
LEMMA ReadingKeeps ==
    ASSUME PCMInv, NEW c \in Conns, ReadingThread(c) \/ ServerLeaves(c)
    PROVE  PCMInv'
<1> USE PipeClientManagerAssumption
        DEF PCMInv, PCMTypeOK, ReaderPoints, HandlesAgree, OneReader, Reading,
            DuplicateWhileReading, HandlesAreOwned, ReaderStartsClean, threadData, flags, conns,
            ReaderTo
<1>1. CASE LoopTest(c)
  BY <1>1 DEF LoopTest
<1>2. CASE ReadIssue(c) \/ ReadFails(c) \/ ReadCompletes(c) \/ EventObserved(c)
  BY <1>2 DEF ReadIssue, ReadFails, ReadCompletes, EventObserved
<1>3. CASE ReadLost(c)
  BY <1>3 DEF ReadLost
<1>4. CASE CloseDuplicate(c)
  BY <1>4 DEF CloseDuplicate
<1>5. CASE ReportLoss(c) \/ ThreadEnds(c)
  BY <1>5 DEF ReportLoss, ThreadEnds
<1>6. CASE ServerLeaves(c)
  BY <1>6 DEF ServerLeaves
<1> QED BY <1>1, <1>2, <1>3, <1>4, <1>5, <1>6 DEF ReadingThread

\* Every step of the client manager keeps its invariant.
LEMMA PCMStep == PCMInv /\ [PCMNext]_pcmVars => PCMInv'
<1> SUFFICES ASSUME PCMInv, [PCMNext]_pcmVars PROVE PCMInv'
    OBVIOUS
<1>1. CASE UNCHANGED pcmVars
  BY <1>1 DEF PCMInv, PCMTypeOK, HandlesAgree, OneReader, Reading, DuplicateWhileReading,
              HandlesAreOwned, ReaderStartsClean, pcmVars, threadData, flags, conns
<1> QED BY <1>1, ConnectKeeps, DisconnectKeeps, ReadingKeeps DEF PCMNext

\* The invariant of the client manager, in every reachable state.
LEMMA PCMInvHolds == PCMSpec => []PCMInv
  BY InitHasPCMInv, PCMStep, PTL DEF PCMSpec

-----------------------------------------------------------------------------

\* However an owner mixes connecting and disconnecting with the loss of servers, one
\* thread reads at most, and it is the one m_threadData has.
THEOREM OneThreadReads == PCMSpec => []OneReader
<1>1. PCMInv => OneReader
  BY DEF PCMInv
<1> QED BY <1>1, PCMInvHolds, PTL

\* Neither handle of a connection whose thread was started is ever lost or left open.
THEOREM HandlesHaveOwners == PCMSpec => []HandlesAreOwned
<1>1. PCMInv => HandlesAreOwned
  BY DEF PCMInv
<1> QED BY <1>1, PCMInvHolds, PTL

\* The flag and the event of one disconnection never end the next connection's thread.
THEOREM ReadersStartClean == PCMSpec => []ReaderStartsClean
<1>1. PCMInv => ReaderStartsClean
  BY DEF PCMInv
<1> QED BY <1>1, PCMInvHolds, PTL

\* The destructor leaves no reading thread, although pcDisconnect returns at once and
\* without waiting when it finds no handle.
THEOREM DestructionIsQuiet == PCMSpec => []DestroyedIsQuiet
<1>1. PCMInv => DestroyedIsQuiet
  BY PipeClientManagerAssumption DEF PCMInv, HandlesAgree, OneReader, DestroyedIsQuiet
<1> QED BY <1>1, PCMInvHolds, PTL

-----------------------------------------------------------------------------
(* The window *)

\* A step of the window is a step of an owner of the manager.
LEMMA WindowStepRefines == [Next]_vars => [PCMNext]_pcmVars
<1> SUFFICES ASSUME [Next]_vars PROVE [PCMNext]_pcmVars
    OBVIOUS
<1>1. CASE ConnectFails \/ ConnectSucceeds
  BY <1>1 DEF ConnectFails, ConnectSucceeds, PCMNext, Connect
<1>2. CASE BoxClosed \/ ClickStart \/ ClickStop
  BY <1>2 DEF BoxClosed, ClickStart, ClickStop
<1>3. CASE ClickDisconnect \/ (\E c \in Conns : OnDisconnect(c)) \/ CloseWindow
  BY <1>3 DEF ClickDisconnect, OnDisconnect, CloseWindow, Disconnects, NothingToDisconnect,
              PCMNext, Disconnect
<1>4. CASE DisconnectSignal \/ Disconnected \/ DestroyWindow
  BY <1>4 DEF Disconnected, DestroyWindow, PCMNext, Disconnect
<1>5. ASSUME NEW c \in Conns, ThreadStep(c) PROVE PCMNext
  BY <1>5 DEF ThreadStep, LossPosted, PCMNext, ReadingThread
<1>6. ASSUME NEW c \in Conns, ServerGone(c) PROVE PCMNext
  BY <1>6 DEF PCMNext, ServerGone
<1>7. CASE ServerReads \/ UNCHANGED vars
  BY <1>7 DEF ServerReads, vars
<1> QED BY <1>1, <1>2, <1>3, <1>4, <1>5, <1>6, <1>7 DEF Next, Gui, Terminated

\* The window is an owner of the manager like PipeClientManager assumes it: its actions
\* are written around the manager's, so that the manager's theorems hold for it.
LEMMA WindowRefinesManager == Spec => PCMSpec
<1>1. Init => PCMInit
  BY DEF Init
<1> QED BY <1>1, WindowStepRefines, PTL DEF Spec, PCMSpec

-----------------------------------------------------------------------------

\* Connect is enabled alone, ...
ConnectIsAlone == "Connect" \in enabled => enabled = {"Connect"}

\* ... and between two slots only when there is nothing to disconnect, unless the
\* "Connected" box has still to be closed, ...
ConnectIsFree ==
    "Connect" \in enabled /\ slot = "no" =>
        ~connected /\ (box = "Connected" \/ hReadingThread = NoConn)

\* ... in which case nothing was sent yet.
BoxIsFresh == box = "Connected" => "Connect" \in enabled /\ unread = <<>> /\ served = NoMsg

\* What the server will read next continues the turns of what it read.
TurnsAreKept ==
    sendResult = "csr_all_ok" =>
        /\ unread # <<>> => (unread[1] = START <=> served # START)
        /\ \A i \in 1 .. Len(unread) - 1 : unread[i + 1] = START <=> unread[i] # START

LastSent == IF unread = <<>> THEN served ELSE unread[Len(unread)]

\* Start and Stop say which command the connection was sent last.
ButtonsAgree ==
    connected /\ hPipeClientSide # NoConn /\ server[hPipeClientSide] = "up" /\ sendResult = "csr_all_ok" =>
        /\ "Start" \in enabled => LastSent # START
        /\ "Stop" \in enabled => LastSent = START

WindowInv ==
    /\ PCMInv
    /\ TypeOK
    /\ ConnectIsAlone
    /\ ConnectIsFree
    /\ BoxIsFresh
    /\ TurnsAreKept
    /\ ButtonsAgree

\* A window that has just been opened.
LEMMA InitHasWindowInv == Init => WindowInv
<1> SUFFICES ASSUME Init PROVE WindowInv
    OBVIOUS
<1>1. PCMInv
  BY InitHasPCMInv DEF Init
<1>2. TypeOK
  <2>1. unread = <<>> /\ served = NoMsg
    BY DEF Init
  <2>2. unread \in Seq({START, BREAK})
    BY <2>1
  <2> QED BY <1>1, <2>1, <2>2 DEF Init, PCMInit, PCMInv, TypeOK, Buttons
<1>3. ConnectIsAlone /\ ConnectIsFree /\ BoxIsFresh
  BY DEF Init, PCMInit, ConnectIsAlone, ConnectIsFree, BoxIsFresh
<1>4. TurnsAreKept /\ ButtonsAgree
  BY DEF Init, TurnsAreKept, ButtonsAgree
<1> QED BY <1>1, <1>2, <1>3, <1>4 DEF WindowInv

\* A command that was sent in its turn keeps the turns, and is the last one sent.
LEMMA WrittenInTurn ==
    ASSUME TypeOK, TurnsAreKept, NEW m \in {START, BREAK}, Written(m), UNCHANGED served,
           sendResult = "csr_all_ok" => (m = START <=> LastSent # START)
    PROVE  TurnsAreKept' /\ unread' # <<>> /\ unread'[Len(unread')] = m
<1> USE ClientWindowAssumption
<1>1. unread' = Append(unread, m) /\ sendResult' = sendResult /\ served' = served
  BY DEF Written, TypeOK
<1>2. /\ Len(unread') = Len(unread) + 1 /\ unread'[Len(unread) + 1] = m
      /\ \A i \in 1 .. Len(unread) : unread'[i] = unread[i]
  BY <1>1 DEF TypeOK
<1>3. unread' # <<>> /\ unread'[Len(unread')] = m
  BY <1>1, <1>2 DEF TypeOK
<1>4. ASSUME sendResult' = "csr_all_ok"
      PROVE  /\ unread'[1] = START <=> served' # START
             /\ \A i \in 1 .. Len(unread') - 1 : unread'[i + 1] = START <=> unread'[i] # START
  <2>1. sendResult = "csr_all_ok" /\ served' = served
    BY <1>1, <1>4
  <2>2. CASE unread = <<>>
    BY <1>1, <1>2, <2>1, <2>2 DEF LastSent
  <2>3. CASE unread # <<>>
    <3>1. Len(unread) \in Nat \ {0}
      BY <2>3 DEF TypeOK
    <3> QED BY <1>1, <1>2, <2>1, <2>3, <3>1 DEF TurnsAreKept, LastSent
  <2> QED BY <2>2, <2>3
<1> QED BY <1>3, <1>4 DEF TurnsAreKept

\* The server reads the oldest command: those behind it still alternate.
LEMMA ReadInTurn ==
    ASSUME TypeOK, TurnsAreKept, ServerReads
    PROVE  TurnsAreKept' /\ LastSent' = LastSent
<1> USE ClientWindowAssumption DEF TypeOK
<1>1. unread # <<>> /\ unread' = Tail(unread) /\ served' = Head(unread) /\ sendResult' = sendResult
  BY DEF ServerReads
<1>2. /\ Len(unread) > 0 /\ Len(unread') = Len(unread) - 1 /\ served' = unread[1]
      /\ \A i \in 1 .. Len(unread') : unread'[i] = unread[i + 1]
  BY <1>1
<1>3. (unread' = <<>>) <=> (Len(unread) = 1)
  <2>1. unread' \in Seq({START, BREAK})
    BY <1>1, <1>2
  <2> QED BY <1>2, <2>1
<1>4. TurnsAreKept'
  BY <1>1, <1>2, <1>3 DEF TurnsAreKept
<1>5. LastSent' = LastSent
  BY <1>1, <1>2, <1>3 DEF LastSent
<1> QED BY <1>4, <1>5

\* The button that is enabled sends the other command.
LEMMA ClickKeepsTurns ==
    ASSUME TypeOK, TurnsAreKept, ButtonsAgree, hPipeClientSide \in Conns \cup {NoConn},
           ClickStart \/ ClickStop
    PROVE  TurnsAreKept' /\ ButtonsAgree' /\ unread' \in Seq({START, BREAK})
<1> USE ClientWindowAssumption
<1>1. UNCHANGED <<hPipeClientSide, server, connected, served>> /\ connected
  BY DEF ClickStart, ClickStop, send, pcSend, pcmVars, threadData, conns
<1>2. CASE NotWritten
  <2>1. unread' \in Seq({START, BREAK}) /\ sendResult' = "csr_error"
    BY <1>2 DEF NotWritten, TypeOK
  <2> QED BY <2>1 DEF TurnsAreKept, ButtonsAgree
<1>3. ASSUME NEW m \in {START, BREAK}, Written(m),
             sendResult = "csr_all_ok" => (m = START <=> LastSent # START),
             "Start" \in enabled' => m # START, "Stop" \in enabled' => m = START
      PROVE  TurnsAreKept' /\ ButtonsAgree' /\ unread' \in Seq({START, BREAK})
  <2>1. TurnsAreKept' /\ LastSent' = m
    BY <1>1, <1>3, WrittenInTurn DEF LastSent
  <2>2. unread' \in Seq({START, BREAK})
    BY <1>3 DEF Written, TypeOK
  <2> QED BY <1>3, <2>1, <2>2 DEF ButtonsAgree
<1>4. CASE ClickStart /\ Written(START)
  <2>1. "Start" \in enabled /\ "Start" \notin enabled'
    BY <1>4 DEF ClickStart, Clickable
  <2>2. sendResult = "csr_all_ok" => LastSent # START
    BY <1>1, <1>4, <2>1 DEF ButtonsAgree, Written
  <2> QED BY <1>3, <1>4, <2>1, <2>2
<1>5. CASE ClickStop /\ Written(BREAK)
  <2>1. "Stop" \in enabled /\ "Stop" \notin enabled'
    BY <1>5 DEF ClickStop, Clickable
  <2>2. sendResult = "csr_all_ok" => LastSent = START
    BY <1>1, <1>5, <2>1 DEF ButtonsAgree, Written
  <2> QED BY <1>3, <1>5, <2>1, <2>2
<1> QED BY <1>2, <1>4, <1>5 DEF ClickStart, ClickStop, send, pcSend

\* Other steps leave the commands alone, or begin without any.
LEMMA OthersKeepTurns ==
    ASSUME TurnsAreKept, (UNCHANGED sending) \/ NoCommands
    PROVE  /\ TurnsAreKept'
           /\ UNCHANGED sending => LastSent' = LastSent
           /\ NoCommands => LastSent' # START
<1>1. CASE UNCHANGED sending
  <2>1. unread' = unread /\ served' = served /\ sendResult' = sendResult
    BY <1>1 DEF sending
  <2>2. LastSent' = LastSent
    BY <2>1 DEF LastSent
  <2>3. NoCommands => LastSent' # START
    BY ClientWindowAssumption DEF NoCommands, LastSent
  <2>4. TurnsAreKept'
    BY <2>1 DEF TurnsAreKept
  <2> QED BY <2>2, <2>3, <2>4
<1>2. CASE NoCommands
  <2>1. unread' = <<>> /\ served' = NoMsg /\ sendResult' = "csr_all_ok"
    BY <1>2 DEF NoCommands
  <2>2. LastSent' = NoMsg /\ NoMsg # START
    BY <2>1, ClientWindowAssumption DEF LastSent
  <2>3. UNCHANGED sending => LastSent' = LastSent
    BY DEF sending, LastSent
  <2>4. TurnsAreKept'
    BY <2>1 DEF TurnsAreKept
  <2> QED BY <2>2, <2>3, <2>4
<1> QED BY <1>1, <1>2

\* Every step of the window, the manager and the server keeps the invariant.
LEMMA WindowStep == WindowInv /\ [Next]_vars => WindowInv'
<1> SUFFICES ASSUME WindowInv, [Next]_vars PROVE WindowInv'
    OBVIOUS
<1>0. PCMInv' /\ PCMTypeOK'
  BY WindowStepRefines, PCMStep DEF WindowInv, PCMInv
<1>1. /\ HandlesAgree /\ PCMTypeOK /\ TurnsAreKept /\ ButtonsAgree
      /\ owner \in {"idle", "signal", "wait", "destroyed"}
      /\ hPipeClientSide \in Conns \cup {NoConn}
      /\ server \in [Conns -> {"none", "up", "gone"}]
  BY DEF WindowInv, PCMInv, PCMTypeOK
<1> USE <1>0, <1>1, ClientWindowAssumption, PipeClientManagerAssumption, OthersKeepTurns
        DEF WindowInv, TypeOK, Buttons, ConnectIsAlone, ConnectIsFree, BoxIsFresh,
            HandlesAgree, TakesInput, Clickable
<1>2. CASE ConnectFails
  <2>1. /\ UNCHANGED <<connected, enabled, slot, posted, sending, owner>> /\ box' = "Info"
        /\ "Connect" \in enabled /\ slot = "no" /\ box = "no" /\ ~connected
        /\ hReadingThread = NoConn /\ hReadingThread' = NoConn
    BY <1>2 DEF ConnectFails, ConnectNoPipe, ConnectRefused, ConnectHalf, MayConnect, pcmVars, threadData
  <2> QED BY <2>1 DEF sending, ButtonsAgree
<1>3. CASE ConnectSucceeds
  <2>1. UNCHANGED <<connected, enabled, slot, posted>> /\ NoCommands /\ box' = "Connected" /\ ~connected
    BY <1>3 DEF ConnectSucceeds
  <2> QED BY <1>3, <2>1 DEF NoCommands, ButtonsAgree, ConnectSucceeds, ConnectDone
<1>4. CASE BoxClosed
  <2>1. UNCHANGED <<pcmVars, threadData, server, owner, slot, posted, sending>> /\ box' = "no"
    BY <1>4 DEF BoxClosed, pcmVars, conns
  <2>2. CASE box = "Connected"
    <3>1. enabled = {"Connect"} /\ connected' /\ enabled' = {"Start", "Disconnect"}
      BY <1>4, <2>2 DEF BoxClosed
    <3>2. LastSent' # START
      BY <2>1, <2>2 DEF LastSent
    <3> QED BY <2>1, <2>2, <3>1, <3>2 DEF threadData, sending, ButtonsAgree
  <2>3. CASE box # "Connected"
    BY <1>4, <2>1, <2>3 DEF BoxClosed, threadData, sending, ButtonsAgree
  <2> QED BY <2>2, <2>3
<1>5. CASE ClickStart \/ ClickStop
  <2>1. TurnsAreKept' /\ ButtonsAgree' /\ unread' \in Seq({START, BREAK})
    BY <1>5, ClickKeepsTurns
  <2>2. /\ "Connect" \notin enabled' /\ enabled' \subseteq Buttons
        /\ UNCHANGED <<owner, connected, box, slot, posted, served>> /\ box = "no"
        /\ sendResult' \in {sendResult, "csr_error"}
    BY <1>5 DEF ClickStart, ClickStop, send, pcSend, Written, NotWritten, pcmVars
  <2> QED BY <2>1, <2>2
<1>6. CASE ClickDisconnect
  <2>1. CASE NothingToDisconnect
    <3>1. owner = "idle" /\ hReadingThread = NoConn /\ hPipeClientSide = NoConn
      BY <1>6, <2>1 DEF ClickDisconnect, NothingToDisconnect
    <3>2. /\ UNCHANGED <<threadData, server, owner, slot, sending, box, posted>> /\ connected' = FALSE
          /\ enabled' = IF connected THEN {"Connect"} ELSE enabled
      BY <1>6, <2>1, <3>1
         DEF ClickDisconnect, NothingToDisconnect, Disconnects, DisconnectBegin, pcmVars, conns
    <3> QED BY <2>1, <3>1, <3>2 DEF threadData, sending, ButtonsAgree
  <2>2. CASE Disconnects("click")
    BY <1>6, <2>2
       DEF ClickDisconnect, Disconnects, DisconnectBegin, NothingToDisconnect, NoCommands, ButtonsAgree
  <2> QED BY <1>6, <2>1, <2>2 DEF ClickDisconnect
<1>7. CASE \E c \in Conns : OnDisconnect(c)
  <2>0. PICK c \in Conns : OnDisconnect(c)
    BY <1>7
  <2>1. CASE NothingToDisconnect
    <3>1. owner = "idle" /\ hReadingThread = NoConn /\ hPipeClientSide = NoConn
      BY <2>0, <2>1 DEF OnDisconnect, NothingToDisconnect
    <3>2. /\ UNCHANGED <<threadData, server, owner, slot, sending, box>> /\ connected' = FALSE
          /\ enabled' = {"Connect"} /\ posted' \subseteq posted
      BY <2>0, <2>1, <3>1
         DEF OnDisconnect, NothingToDisconnect, Disconnects, DisconnectBegin, pcmVars, conns
    <3> QED BY <2>1, <3>1, <3>2 DEF threadData, sending, ButtonsAgree
  <2>2. CASE Disconnects("event")
    <3>1. /\ owner = "idle" /\ owner' = "signal" /\ slot' = "event" /\ hPipeClientSide' = NoConn
          /\ NoCommands /\ UNCHANGED <<hReadingThread, box>> /\ posted' \subseteq posted
      BY <2>0, <2>2 DEF OnDisconnect, Disconnects, DisconnectBegin
    <3>2. UNCHANGED <<connected, enabled>>
      BY <2>0, <2>2 DEF OnDisconnect, Disconnects, DisconnectBegin, NothingToDisconnect
    <3> QED BY <3>1, <3>2 DEF NoCommands, ButtonsAgree
  <2> QED BY <2>0, <2>1, <2>2 DEF OnDisconnect
<1>8. CASE DisconnectSignal /\ UNCHANGED windowVars
  BY <1>8 DEF DisconnectSignal, windowVars, threadData, sending, conns, ButtonsAgree
<1>9. CASE Disconnected
  BY <1>9 DEF Disconnected, Waited, sending, conns, ButtonsAgree
<1>10. CASE CloseWindow \/ DestroyWindow
  <2>1. CASE CloseWindow
    BY <1>10, <2>1 DEF CloseWindow, Disconnects, DisconnectBegin, NoCommands, ButtonsAgree
  <2>2. CASE DestroyWindow
    <3>1. /\ owner = "idle" /\ hPipeClientSide = NoConn /\ hPipeClientSide' = NoConn
          /\ owner' = "destroyed" /\ slot' = "close" /\ posted' = {}
          /\ UNCHANGED <<connected, enabled, box, sending>>
      BY <1>10, <2>2 DEF DestroyWindow, Destroy
    <3> QED BY <3>1 DEF sending, ButtonsAgree
  <2> QED BY <1>10, <2>1, <2>2
<1>11. ASSUME NEW c \in Conns, ThreadStep(c) PROVE WindowInv'
  <2>1. /\ UNCHANGED <<threadData, server, owner, connected, enabled, box, slot, sending>>
        /\ posted' \in {posted, posted \cup {c}}
    BY <1>11 DEF ThreadStep, LoopTest, ReadIssue, ReadFails, ReadLost, ReadCompletes, EventObserved,
                 CloseDuplicate, LossPosted, ReportLoss, ThreadEnds, windowVars
  <2> QED BY <2>1 DEF threadData, sending, ButtonsAgree
<1>12. ASSUME NEW c \in Conns, ServerGone(c) PROVE WindowInv'
  <2>1. /\ UNCHANGED <<threadData, owner, connected, enabled, box, slot, posted, served, sendResult>>
        /\ server' = [server EXCEPT ![c] = "gone"]
        /\ unread' = IF hPipeClientSide = c THEN <<>> ELSE unread
    BY <1>12 DEF ServerGone, ServerLeaves
  <2>2. CASE hPipeClientSide = c
    <3>1. TurnsAreKept'
      BY <2>1, <2>2 DEF TurnsAreKept
    <3> QED BY <2>1, <2>2, <3>1 DEF threadData, ButtonsAgree
  <2>3. CASE hPipeClientSide # c
    BY <2>1, <2>3 DEF threadData, sending, ButtonsAgree
  <2> QED BY <2>2, <2>3
<1>13. CASE ServerReads
  <2>1. /\ UNCHANGED <<threadData, server, owner, connected, enabled, box, slot, posted, sendResult>>
        /\ unread # <<>> /\ unread' = Tail(unread) /\ served' = Head(unread)
    BY <1>13 DEF ServerReads, pcmVars, conns
  <2>2. TurnsAreKept' /\ LastSent' = LastSent
    BY <1>13, ReadInTurn
  <2> QED BY <2>1, <2>2 DEF threadData, ButtonsAgree
<1>14. CASE UNCHANGED vars
  BY <1>14 DEF vars, pcmVars, conns, windowVars, threadData, sending, ButtonsAgree
<1> QED BY <1>2, <1>3, <1>4, <1>5, <1>6, <1>7, <1>8, <1>9, <1>10, <1>11, <1>12, <1>13, <1>14
        DEF Next, Gui, Terminated

\* The invariant of the window, in every reachable state.
LEMMA WindowInvHolds == Spec => []WindowInv
  BY InitHasWindowInv, WindowStep, PTL DEF Spec

-----------------------------------------------------------------------------

\* The variables of window and manager keep their types; while the manager disconnects,
\* some slot is waiting for it.
THEOREM WindowTypeCorrect == Spec => []TypeOK
<1>1. WindowInv => TypeOK
  BY DEF WindowInv
<1> QED BY <1>1, WindowInvHolds, PTL

\* Whatever connections were lost or disconnected before, a click on Connect finds no
\* reading thread, so that pcConnect never refuses.
THEOREM ConnectsStartAfresh == Spec => []ConnectStartsAfresh
<1>1. WindowInv => ConnectStartsAfresh
  BY DEF WindowInv, ConnectIsFree, ConnectStartsAfresh, Clickable, TakesInput
<1> QED BY <1>1, WindowInvHolds, PTL

\* The server reads START and BREAK of a connection in turn, as its pool needs it, as
\* long as no command of the connection failed.
THEOREM WindowAlternates == Spec => CommandsAlternate
<1>1. WindowInv => (ServerReads /\ sendResult = "csr_all_ok" => (served' = START <=> served # START))
  <2> SUFFICES ASSUME WindowInv, ServerReads, sendResult = "csr_all_ok" PROVE served' = START <=> served # START
      OBVIOUS
  <2>1. unread # <<>> /\ served' = unread[1]
    BY DEF ServerReads, WindowInv, TypeOK
  <2> QED BY <2>1 DEF WindowInv, TurnsAreKept
<1> QED BY <1>1, WindowInvHolds, PTL DEF Spec, CommandsAlternate

=============================================================================
