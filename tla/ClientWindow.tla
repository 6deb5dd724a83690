---------------------------- MODULE ClientWindow ----------------------------
(***************************************************************************)
(* MainWindow (src/Client/mainwindow.cpp) and the calls of PipeClient it   *)
(* makes, on top of PipeClientManager.  All slots run on the GUI thread.   *)
(* disconnectEvent is emitted on a reading thread and posted to the GUI    *)
(* thread; user input may overtake it.  A message box blocks the window's  *)
(* buttons and runs an event loop of its own, which delivers posted        *)
(* signals.  Images received and their painting are left out.              *)
(* The commands are followed on their way to the server's reader, for the  *)
(* connection the handle is of; what the server still reads of one that    *)
(* was closed is not.                                                      *)
(***************************************************************************)
EXTENDS PipeClientManager, Sequences

CONSTANTS
    START, BREAK, NoMsg,  \* CMD_START, CMD_BREAK, no command yet
    MaxUnread             \* bound: commands written and not read

ASSUME ClientWindowAssumption ==
    START # BREAK /\ NoMsg \notin {START, BREAK} /\ MaxUnread \in Nat

VARIABLES
    connected,  \* MainWindow::connected
    enabled,    \* the buttons that are enabled
    box,        \* the open message box: "no", "Connected", or any other, "Info"
    slot,       \* the slot that is in cls->disconnect: "no", "click", "event", "close"
    posted,     \* the connections whose loss was posted and not delivered
    unread,     \* the commands written and not read by the server yet
    served,     \* the last command the server read
    sendResult  \* what pcSend returned, an error as soon as one call of the connection failed

sending == <<unread, served, sendResult>>
windowVars == <<connected, enabled, box, slot, posted, sending>>
vars == <<pcmVars, windowVars>>

Buttons == {"Connect", "Start", "Stop", "Disconnect"}

TypeOK ==
    /\ PCMTypeOK
    /\ connected \in BOOLEAN
    /\ enabled \subseteq Buttons
    /\ box \in {"no", "Connected", "Info"}
    /\ slot \in {"no", "click", "event", "close"}
    /\ slot \in {"click", "event"} => owner \in {"signal", "wait"}
    /\ owner \in {"signal", "wait", "destroyed"} => slot # "no"
    /\ posted \subseteq Conns
    /\ unread \in Seq({START, BREAK})
    /\ served \in {START, BREAK, NoMsg}
    /\ sendResult \in {"csr_all_ok", "csr_error"}

Init ==
    /\ PCMInit
    /\ connected = FALSE
    /\ enabled = {"Connect"}
    /\ box = "no"
    /\ slot = "no"
    /\ posted = {}
    /\ unread = <<>>
    /\ served = NoMsg
    /\ sendResult = "csr_all_ok"

\* A connection begins, or is over.
NoCommands == unread' = <<>> /\ served' = NoMsg /\ sendResult' = "csr_all_ok"

\* The window takes user input.
TakesInput == box = "no" /\ slot = "no"

Clickable(b) == TakesInput /\ b \in enabled

-----------------------------------------------------------------------------
(* on_btnConnect_clicked *)

\* "You are already connected!", or pcConnect fails ("Failed to connect"); with
\* CONNECTION_ALREADY_EXISTS the manager does not change.
ConnectFails ==
    /\ Clickable("Connect")
    /\ IF connected \/ ~MayConnect
       THEN UNCHANGED pcmVars
       ELSE ConnectNoPipe \/ ConnectRefused \/ \E c \in Conns \ posted : ConnectHalf(c)
    /\ box' = "Info"
    /\ UNCHANGED <<connected, enabled, slot, posted, sending>>

ConnectSucceeds ==
    /\ Clickable("Connect")
    /\ ~connected
    /\ \E c \in Conns \ posted : ConnectDone(c)
    /\ NoCommands
    /\ box' = "Connected"
    /\ UNCHANGED <<connected, enabled, slot, posted>>

\* Mutant: Connect is not disabled.
BoxClosedKeepsConnect ==
    /\ box # "no"
    /\ slot = "no"
    /\ IF box = "Connected"
       THEN /\ connected' = TRUE
            /\ enabled' = enabled \cup {"Start", "Disconnect"}
       ELSE UNCHANGED <<connected, enabled>>
    /\ box' = "no"
    /\ UNCHANGED <<pcmVars, slot, posted, sending>>

\* The user closes the box, and the slot goes on.
BoxClosed ==
    /\ box # "no"
    /\ slot = "no"
    /\ IF box = "Connected"
       THEN /\ connected' = TRUE
            /\ enabled' = (enabled \cup {"Start", "Disconnect"}) \ {"Connect"}
       ELSE UNCHANGED <<connected, enabled>>
    /\ box' = "no"
    /\ UNCHANGED <<pcmVars, slot, posted, sending>>

-----------------------------------------------------------------------------
(* on_btnStart_clicked, on_btnStop_clicked *)

\* csr_all_ok: the write is done or pending (ERROR_IO_PENDING).
Written(m) ==
    /\ hPipeClientSide # NoConn /\ server[hPipeClientSide] = "up"
    /\ Len(unread) < MaxUnread
    /\ unread' = Append(unread, m)
    /\ UNCHANGED sendResult

\* There is no handle, the server is gone, or WriteFile fails: for want of memory the
\* commands before that are still pending are cancelled.
NotWritten ==
    /\ sendResult' = "csr_error"
    /\ \E n \in 0 .. Len(unread) : unread' = SubSeq(unread, 1, n)

pcSend(m) == Written(m) \/ NotWritten

\* cls->send: a packet of the command alone.  The slots do not look at the result.
send(m) == pcSend(m) /\ UNCHANGED served

ClickStart ==
    /\ Clickable("Start")
    /\ connected
    /\ send(START)
    /\ enabled' = (enabled \ {"Start"}) \cup {"Stop"}
    /\ UNCHANGED <<pcmVars, connected, box, slot, posted>>

ClickStop ==
    /\ Clickable("Stop")
    /\ connected
    /\ send(BREAK)
    /\ enabled' = (enabled \ {"Stop"}) \cup {"Start"}
    /\ UNCHANGED <<pcmVars, connected, box, slot, posted>>

-----------------------------------------------------------------------------
(* on_btnDisconnect_clicked, onDisconnect, the destructor *)

\* cls->disconnect() blocks the slot s until the reading thread has ended...
Disconnects(s) == DisconnectBegin /\ NoCommands /\ slot' = s

\* ... or returns at once.
NothingToDisconnect == hPipeClientSide = NoConn /\ UNCHANGED <<pcmVars, slot, sending>>

\* Mutant: Stop stays as it is.
ClickDisconnectKeepsStop ==
    /\ Clickable("Disconnect")
    /\ enabled' = IF connected THEN {"Connect"} \cup (enabled \cap {"Stop"}) ELSE enabled
    /\ \/ Disconnects("click") /\ UNCHANGED connected
       \/ NothingToDisconnect /\ connected' = FALSE
    /\ UNCHANGED <<box, posted>>

ClickDisconnect ==
    /\ Clickable("Disconnect")
    /\ enabled' = IF connected THEN {"Connect"} ELSE enabled
    /\ \/ Disconnects("click") /\ UNCHANGED connected
       \/ NothingToDisconnect /\ connected' = FALSE
    /\ UNCHANGED <<box, posted>>

\* The posted signal of the loss of c is delivered.
OnDisconnect(c) ==
    /\ c \in posted
    /\ slot = "no"
    /\ posted' = posted \ {c}
    /\ \/ Disconnects("event") /\ UNCHANGED <<connected, enabled>>
       \/ NothingToDisconnect /\ connected' = FALSE /\ enabled' = {"Connect"}
    /\ UNCHANGED <<box>>

\* cls->disconnect() returns to the slot.
Disconnected ==
    /\ Waited
    /\ IF slot = "close" THEN UNCHANGED <<connected, slot>>
       ELSE slot' = "no" /\ connected' = FALSE
    /\ enabled' = IF slot = "event" THEN {"Connect"} ELSE enabled
    /\ UNCHANGED <<box, posted, sending>>

\* The window is closed: ~MainWindow disconnects...
CloseWindow ==
    /\ TakesInput
    /\ Disconnects("close")
    /\ UNCHANGED <<connected, enabled, box, posted>>

\* ... and its members go; signals still posted are dropped with their receiver.
DestroyWindow ==
    /\ TakesInput \/ slot = "close"
    /\ Destroy
    /\ slot' = "close"
    /\ posted' = {}
    /\ UNCHANGED <<connected, enabled, box, sending>>

-----------------------------------------------------------------------------

\* Mutant: nothing is emitted.
LossDropped(c) ==
    /\ ReportLoss(c)
    /\ UNCHANGED windowVars

\* The handler PipeClient links emits disconnectEvent.
LossPosted(c) ==
    /\ ReportLoss(c)
    /\ posted' = posted \cup {c}
    /\ UNCHANGED <<connected, enabled, box, slot, sending>>

ThreadStep(c) ==
    \/ /\ \/ LoopTest(c) \/ ReadIssue(c) \/ ReadFails(c) \/ ReadLost(c)
          \/ ReadCompletes(c) \/ EventObserved(c) \/ CloseDuplicate(c) \/ ThreadEnds(c)
       /\ UNCHANGED windowVars
    \/ LossPosted(c)

\* The server's reader gets a command.
ServerReads ==
    /\ unread # <<>>
    /\ unread' = Tail(unread)
    /\ served' = Head(unread)
    /\ UNCHANGED <<pcmVars, connected, enabled, box, slot, posted, sendResult>>

\* With the server's end goes what it had not read.
ServerGone(c) ==
    /\ ServerLeaves(c)
    /\ unread' = IF hPipeClientSide = c THEN <<>> ELSE unread
    /\ UNCHANGED <<connected, enabled, box, slot, posted, served, sendResult>>

Gui ==
    \/ ConnectFails \/ ConnectSucceeds \/ BoxClosed
    \/ ClickStart \/ ClickStop \/ ClickDisconnect
    \/ \E c \in Conns : OnDisconnect(c)
    \/ DisconnectSignal /\ UNCHANGED windowVars
    \/ Disconnected \/ CloseWindow \/ DestroyWindow

Terminated == owner = "destroyed" /\ UNCHANGED vars

Next ==
    \/ Gui
    \/ ServerReads
    \/ \E c \in Conns : ThreadStep(c) \/ ServerGone(c)
    \/ Terminated

Spec == Init /\ [][Next]_vars

\* The thread of c has something to wake up for: a server that stays silent is
\* never assumed to send.
Woken(c) == reader[c] = "wait" => server[c] = "gone" \/ m_hEventRead

\* Threads run; a signalled event is not passed over for ever for the messages of a
\* server that never pauses; the GUI thread ends its slots, and delivers what is
\* posted, because input pauses at times.  The user never has to do anything.
Fairness ==
    /\ \A c \in Conns : WF_vars(Woken(c) /\ ThreadStep(c))
    /\ \A c \in Conns : SF_vars(EventObserved(c) /\ ThreadStep(c))
    /\ \A c \in Conns : SF_vars(OnDisconnect(c))
    /\ WF_vars(DisconnectSignal /\ UNCHANGED windowVars)
    /\ WF_vars(Disconnected)
    /\ WF_vars(slot = "close" /\ DestroyWindow)

FairSpec == Spec /\ Fairness

-----------------------------------------------------------------------------
(* Properties *)

\* Connect is offered only when no reading thread is left, whatever was lost or
\* disconnected before: "You are already connected!" is never the answer.
ConnectStartsAfresh == Clickable("Connect") => ~connected /\ hReadingThread = NoConn

\* The server reads START and BREAK in turn, whichever buttons earlier connections left
\* enabled, unless a command of this connection failed: what the pool relies on.
CommandsAlternate ==
    [][ServerReads /\ sendResult = "csr_all_ok" => (served' = START <=> served # START)]_vars

\* Every slot returns: the GUI thread does not wait for ever for a reading thread.
SlotsReturn == slot # "no" ~> (slot = "no" \/ owner = "destroyed")

\* The window gives up the handle of a connection whose server is gone without the
\* user doing anything; a failed read, after which none is pending, hides the loss.
LossIsHandled ==
    \A c \in Conns :
        (hReadingThread = c /\ hPipeClientSide = c /\ server[c] = "gone")
            ~> (hPipeClientSide # c \/ reader[c] = "deaf")

\* The window says "Connected" only while the client has a connection, once every
\* loss was delivered.
ShownConnectionExists ==
    TakesInput /\ connected /\ posted = {} => hPipeClientSide # NoConn

=============================================================================
