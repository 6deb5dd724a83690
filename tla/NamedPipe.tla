------------------------------ MODULE NamedPipe ------------------------------
(***************************************************************************)
(* The part of the Windows named pipe API the server manager is built on,  *)
(* modelled from how src/winapiPipe/OVPipeServerManager.h uses it.  One    *)
(* element of Pipes is one instance of the pipe (one HANDLE, one server    *)
(* thread, see psRun).  Every definition here is external to src/.         *)
(*                                                                         *)
(* pipe[h] is the state of the instance:                                   *)
(*   "created"       CreateNamedPipe was called, no ConnectNamedPipe yet;  *)
(*                   a client can open it already                          *)
(*   "listening"     an overlapped ConnectNamedPipe is outstanding         *)
(*   "connected"     a client holds the other end                          *)
(*   "closing"       the client closed its end; what it had written is     *)
(*                   still readable                                        *)
(*   "disconnected"  after DisconnectNamedPipe                             *)
(*   "closed"        the server closed its handle                          *)
(***************************************************************************)
EXTENDS Naturals, Sequences

CONSTANTS
    Pipes,    \* instances of the pipe, named by their HANDLE
    Msgs,     \* the commands a client can send
    MaxInbox  \* bound: messages a client may have written and the server not read

ASSUME NamedPipeAssumption == MaxInbox \in Nat

VARIABLES
    pipe,     \* state of each instance
    inbox,    \* messages written by the client and not read yet (message mode)
    connEvt   \* is the event of the overlapped ConnectNamedPipe signalled?

pipeVars == <<pipe, inbox, connEvt>>

PipeStates == {"created", "listening", "connected", "closing", "disconnected", "closed"}

NamedPipeTypeOK ==
    /\ pipe \in [Pipes -> PipeStates]
    /\ inbox \in [Pipes -> Seq(Msgs)]
    /\ connEvt \in [Pipes -> BOOLEAN]

NamedPipeInit ==
    /\ pipe = [h \in Pipes |-> "created"]
    /\ inbox = [h \in Pipes |-> <<>>]
    /\ connEvt = [h \in Pipes |-> FALSE]

\* A read on h finds something: a message, even one of a client already gone.
Readable(h) == pipe[h] \in {"connected", "closing"} /\ inbox[h] # <<>>

\* A read on h fails: ERROR_PIPE_NOT_CONNECTED or ERROR_BROKEN_PIPE.
ReadFails(h) ==
    \/ pipe[h] = "disconnected"
    \/ pipe[h] = "closing" /\ inbox[h] = <<>>

\* DisconnectNamedPipe drops the client and its unread data.  An outstanding
\* ConnectNamedPipe completes (with an error), which signals its event.
DisconnectNamedPipe(h) ==
    /\ pipe' = IF pipe[h] = "closed" THEN pipe ELSE [pipe EXCEPT ![h] = "disconnected"]
    /\ inbox' = [inbox EXCEPT ![h] = <<>>]
    /\ connEvt' = IF pipe[h] = "listening" THEN [connEvt EXCEPT ![h] = TRUE] ELSE connEvt

\* ConnectNamedPipe on an instance a client can open: the call is pending.
Listen(h) ==
    /\ pipe[h] \in {"created", "listening", "disconnected"}
    /\ pipe' = [pipe EXCEPT ![h] = "listening"]
    /\ connEvt' = [connEvt EXCEPT ![h] = FALSE]
    /\ UNCHANGED inbox

-----------------------------------------------------------------------------
(* The other end: any client process *)

ClientOpen(h) ==
    /\ pipe[h] \in {"created", "listening"}
    /\ pipe' = [pipe EXCEPT ![h] = "connected"]
    /\ connEvt' = [connEvt EXCEPT ![h] = (pipe[h] = "listening")]
    /\ UNCHANGED inbox

ClientWrite(h, m) ==
    /\ pipe[h] = "connected"
    /\ Len(inbox[h]) < MaxInbox
    /\ inbox' = [inbox EXCEPT ![h] = Append(@, m)]
    /\ UNCHANGED <<pipe, connEvt>>

ClientClose(h) ==
    /\ pipe[h] = "connected"
    /\ pipe' = [pipe EXCEPT ![h] = "closing"]
    /\ UNCHANGED <<inbox, connEvt>>

=============================================================================
