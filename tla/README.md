# A verification project for the pipe image server and its client

The repository holds a Windows program in two parts: a server that sends the
images of a directory over named pipes, and a Qt client that shows them. Both
stand on a small library, `winapiPipe`. This directory models them in TLA+:
TLC checks the models on small instances, and TLAPS proves theorems about them
for every value of their constants.

- [1. The system](#1-the-system)
- [2. The modules](#2-the-modules)
- [3. What the runs check](#3-what-the-runs-check)
- [4. Fairness](#4-fairness)
- [5. What is proved](#5-what-is-proved)
- [6. Where code and comments disagree](#6-where-code-and-comments-disagree)
- [7. What is not modelled](#7-what-is-not-modelled)
- [8. Plan](#8-plan)

To check a run: `tlc -config <run>.cfg <its MC module>`; the proofs:
`tlapm <module>Proofs.tla`. `PROJECT.json` lists runs, mutants, hazards,
findings, theorems, and the source lines of every definition.

## 1. The system

| Component | Source | State | Operations |
|---|---|---|---|
| Server manager, threads | `winapiPipe/OVPipeServerManager.h` | one thread and one pipe instance per context; its `bShutDown` flag and stop event; the event of its overlapped connect; its envelop | `ServerThreadProc`, `check_connection_result`, `CompleteIOProc`, `disconnect_pipe`, `Shutdown`, `psStopOverall` |
| Server manager, registry | the same | `m_pool_map`, `m_dwOutputSize` | `psRun`, `psStop`, `psSetOutputBufferSize` |
| Linked handlers of both managers | the same, `OVPipeClientManager.h` | the map of actions, the spit out handler, the cleaner, the handler of a connection that is gone; a lock for each | `psLink...`, `psSet...`, `pcLink...`, `pcResetHandlers`; `CompleteIOProc`, `CompleteOutputProc`, `psPerfomAction` |
| Image server | `Server/Server/Server.cpp`, `Server.h` | `shutdown`, `streamMap`, `pool`, `mtx` | `start`, `stop`, `handle`, `stopHandler`, `onDisconnect`, `translate`, `sendData` |
| Envelop maker, buffer | `winapiPipe/OVDataEnvelopMaker.h`, `data_bufer.h`, `PipeCommon.h` | the `SPS_ACTIONPACKET` and its stream | `MakeEnvelop`, `prepare_envelop_for_next_message`, `ClearEnvelop` |
| Client manager | `winapiPipe/OVPipeClientManager.h` | `m_threadData`, `m_ShutDown`, events, reading thread | `pcConnect`, `pcDisconnect`, `pcWait`, `pcSend`, `OutputThreadProc` |
| Image client | `Client/pipeclient.cpp`, `.h` | `total`, `count`, `curr`, `tempTotal`, `tempCount`, `image` | `getTotal`, `getCount`, `getCurr`, `getImgData`, `connect`, `send`, `disconnect` |
| Window | `Client/mainwindow.cpp` | `connected`, which buttons are enabled | the buttons, `onDisconnect`, `onImageReceived` |
| Locks | `winapiPipe/Locker.h` | critical sections, which are recursive | `c_aux_locker`, `CScopedLock`, `CManualLock`, `CReverseLocker`, `CInterThreadObject` |

How they interact. `psRun` creates an instance of the pipe and its server
thread. The thread waits for a client (at most 1.5 s at a time), then reads in
an alertable wait; each completed read runs `CompleteIOProc`, then
`MakeEnvelop`, which cuts the bytes into messages and calls `psPerfomAction` for
each, and that calls the handler linked to the command, all on the server
thread. The client reads in the same way on a thread of its own. Handlers may be
linked while threads read; the server copies a handler under its lock and calls
the copy, the client calls its spit out handler while it holds the lock.
`handle` (CMD_START) starts a translation thread, which sends one image
after the other to the handle of the instance; `stopHandler` (CMD_BREAK) makes
it stop and joins it. When a read fails, the thread calls `disconnect_pipe`,
which disconnects the instance and calls `onDisconnect`, which also joins the
translation; then the thread waits for the next client on the same instance. A
translation that runs out of files starts a detached thread that calls
`disconnect_pipe` from outside. `stop()` sets a flag, marks every session as
stopped, and `psStopOverall` signals every server thread and waits for it.

What is hard. The connect, its timeout and the reset of its event race with the
client. Five kinds of threads meet at `streamMap` and `pool`, and `pool` is
touched without its mutex. The handle is the only name a translation or a
detached disconnect has for "its" client, and handles are used again. Reads
split messages anywhere. Failed sends go unnoticed, and the client's fields
outlive a connection. A pause cancels writes that are still pending in the
middle of an image. Handlers are looked up while others link them, and may link
some themselves. The loss of a server reaches the window as a posted
event, which may come before, during or after a click, or in the event loop of a
message box. What must be true, component by component:

- *Server threads*: a client that comes is read, an instance is never lost, the
  read loop never spins, and `psStopOverall` returns and touches no context that
  its thread has destroyed.
- *Image server*: a translation is always owned, so that it can be joined; it
  never outlives the client it was started for into the connection of another;
  a paused client gets nothing; `pool` never has a key twice; `stop()` returns
  and leaves nothing running.
- *Envelop maker*: messages are handed over whole, in order, each once, wherever
  reads cut them, and nothing of one connection leaks into the next.
- *Image protocol*: only pictures the server has are shown, no write leaves the
  vector, unless the size of that very image was lost, and an undisturbed image is
  shown, whatever happened before it.
- *Linked handlers*: what was found in the map is there until it was used; an empty
  handler is not called; linking returns, from wherever it is called.
- *Client manager and window*: one reading thread at a time, which starts with
  clean flags; every open handle has somebody who closes it; the commands of a
  connection are START and BREAK in turn; a lost server is noticed and every slot
  of the window returns.

## 2. The modules

`NamedPipe` <- `PipeServerThread` <- `ImageServer` (each EXTENDS the one before), which
implements `ImageService`;
`PipeClientManager` <- `ClientWindow` and `Locker` <- `Handlers` likewise;
`ServerRegistry` stands beside `PipeServerThread`, each an abstraction of what the
other details; `EnvelopMaker` uses `BinaryBuffer` and implements `Framing`; `ImageTransfer` stands by itself on what
`EnvelopMaker` and `ImageServer` establish. What the two sides assume of each other:
`ImageServer` that the commands of a connection alternate, which `ClientWindow`
checks (`CommandsAlternate`, while no `pcSend` of the connection fails); `ClientWindow` that a server may leave at any time. `MC...` modules instantiate them for
TLC, `...Proofs` modules hold the theorems.

**NamedPipe** (external) has the instances of a pipe as the server manager uses
them: the state of an instance (`pipe`), the messages written and not read
(`inbox`), and the event of the overlapped connect (`connEvt`). An instance can
be opened as soon as it exists, so a client can be there before
`ConnectNamedPipe` (ERROR_PIPE_CONNECTED) or be gone again (ERROR_NO_DATA).

**PipeServerThread** has one action per step of `ServerThreadProc` at which
another thread can come in between: `LoopTest`; the four outcomes of the connect
(`ConnectPending`, `ConnectAlready`, `ConnectNoData`, then `ConnectDone` or
`ConnectTimeout`); `ResetAfterTimeout`, apart from the timeout because the race
is between the two; `ReadIssue`/`ReadRefused`; the outcomes of the alertable
wait (`ReadMessage`, `ReadError`, `StopObserved`); `DisconnectPipe`;
`LeavePool`, under the lock `psStopOverall` holds while it loops
(`stopping = "loop"`); `CloseContext`. `psStopOverall` is `StopBegin`, then
`Shutdown` of each context in two steps (`StopSignal`, `StopClear`: the event
before the flag), `StopUnlock`, `StopWaited`. `ForceDisconnect` is
`disconnect_pipe` called by another thread. The owner is seen only as two points
at which a thread is in its code, "handler" and "onDisconnect". Its contexts
exist from the start, which is how the server's main uses `psRun`.
`ReadFileEx` failing with an error other than the three that mean "closed" is
retried at once and changes nothing: it is a stutter, and `ReadNeverSpins` says
that the thread is never there.

**ServerRegistry** has `m_pool_map` and the operations that change it. `psRun` is
`RunCreates`, `RunInserts` (under the lock) and `RunResumes`; `psStop` is one
step, since it holds the map's lock and the context's; `psSetOutputBufferSize` is
`SizeAllowed` and `SizeChanged`, as the lock is given back in between;
`psStopOverall` is `StopBegin`, `StopEach`, `StopClears`, `StopWaited`, and the
destructor is `Destroy` and the same steps. One thread, the owner's, calls them,
in any order. A server thread is seen where it touches the registry:
`Starts` (it allocates the buffer of the size of the moment), `Leaves` (its loop, which
it leaves when it sees its flag, as `PipeServerThread` shows), `Cleans`,
`Erases`, `Deletes`. `bShutDown` is TRUE for a thread that is to go on: the name is the code's.
`stopped` is a history variable: which threads `psStop` has stopped. An
operation that fails or is refused changes nothing and is a stutter.

**Locker** has the operations of `Locker.h` as operators on a critical section, a
record of its owner and how often the owner entered it: `Lock` and `Unlock` of
`c_aux_locker`, `CManualLock` with its `m_locked`, `CReverseLocker`, and `Scoped`, one
access to a `CInterThreadObject`.

**Handlers** has the slots (`slot`), the map (`actions`) and their sections, for either
manager (`side`), and what `Readers` do with them: reading threads, and, on the
server, whoever else calls `disconnect_pipe`. `CompleteProc` is `CompleteIOProc` or
`CompleteOutputProc`: only the client's enters the section and keeps it until
`SpitOutReturns`. `psPerfomAction` is `FindAction` and `CopyAction` under the map's
section, and `CallAction` after it; the other slots are `CopyCallback` and `TestCallback`.
A link is wanted (`Wants`) by an owner's thread, or by an action on its reading
thread, and done by `LinkSlot`, `Reset`, or `LinkFind` and `LinkStore`: the map
is searched and changed with its section held, but in two steps, so that the
section matters. A null handler for an id that is not there is inserted, and its call
ends the process (`Crashed`); `emptied` is a history variable of such ids. What
handlers do, but for linking, belongs to the modules above and below.

**ImageServer** adds class `Server`. `op[t]` is where a thread is in the owner's
code, for server threads and detached threads. `handle` is `HandleChecked` (or
`HandleRefused`), `HandleSession` (mtx taken, Session stored) and `HandleEmplace`
(thread started and emplaced, mtx released), because `shutdown` is read before
mtx, and `pool` is touched by threads that do not hold mtx. `stopHandler` and
`onDisconnect` are a lookup under mtx and then `PoolFind`, `PoolJoin`,
`PoolErase` without it. A translation is `TranslateNext`, `TranslateSend` (one
image), `TranslateCheck`, `TranslateEnd`. Unlocked accesses to `pool` that
conflict are a data race: `PoolRace` may end the run at `crash = "race"`, or the
accesses may just happen one after the other. An iterator that dangles, an
occupied key and an exception of the `directory_iterator` (`TranslateThrows`: nobody catches it on
a translation's thread) lead to `crash` too; what happens after a crash is not modelled. The clients
send START and BREAK in turn, as the window's buttons allow while no send fails.
`asked`, `sent`, `tstale` and `dstale` are history variables: what the current
client asked for and got, and whether the client a thread works for has left.

**ImageService** is what the server promises the clients of its pipe, without threads,
pool, Sessions and flags: an instance takes one command after the other; images are on
their way to a client from the START that was carried out until a BREAK is, its leaving or
the closing of the service, and end for no other reason; only a service that closes refuses
a START or drops a client; nobody comes to an instance that still works for another.
`ImageServer` implements it with a client for `pipe = "connected"`, images on their way for a
live translation, and a command that is carried out for one whose callback is running (`Service`).

**Framing** is the promise of the envelop maker, **EnvelopMaker** its code: a read brings
a piece of what was written (`ReadCompletes`), and each step of the loop of
`MakeEnvelop` is an action. `EnvelopReplaced` is the end of a connection: the server
cleans its envelop, the client makes a new one with the next thread, and what was
written and not read is lost. `auxBinBuffer` is the buffer attached to what was read and `limit`
is `cTransfered`; `meta` is `nMetadataSize`, which counts the cached bytes of a
header below zero; `stm` is the stream. A byte is a pair of a message and a
place in it, so that what is handed over can be compared with what was written.
Header and metadata have a few bytes instead of 20 and 1024. **BinaryBuffer** has the
operations of `c_bindata_bufer` as functions from a buffer to the buffer after
the call; `EnvelopMaker` takes it as an INSTANCE for the stream and for
`auxBinBuffer`.

**ImageTransfer** has the messages of `translate` for an image (`Message`) and the
client's four handlers. A full packet has `Unit` units of data in place of 1024
bytes. A connection may end at any message, and what was on the way is lost; the
send of any message may fail alone (`SendFails`), and nobody notices. When CMD_TOTALSIZE is the one,
the data go to whatever vector the client has; `overrun` is then the image whose data
were written outside of it, and the client, of which nothing is known any more, handles
nothing after that. `broken` and `unsized` are history variables: which images met a loss, and
which lost their CMD_TOTALSIZE. `Paused` is CMD_BREAK and the next
CMD_START: the translation's thread ends, writes it began and that are still pending are
cancelled with it, and the next one goes on with the next image.

**PipeClientManager** has class `COVPipeClientManager`: `m_threadData`
(`hPipeClientSide`, `hReadingThread`), the flag and the event that all
connections share, and for each connection its open handles, its reading thread
and the server's end. `pcConnect` is one step with four outcomes
(`ConnectNoPipe`, `ConnectRefused`, `ConnectHalf`, `ConnectDone`): it holds the
lock of `m_threadData`, and goes past its first test only when no
reading thread is left to interfere. `pcDisconnect` is `DisconnectBegin`
(handle and flag) and `DisconnectSignal` (event), because the reading thread may
look in between; `Waited` is `pcWait`. The reading thread: `LoopTest`,
`ReadIssue`/`ReadLost`/`ReadFails`, `ReadCompletes`/`EventObserved`, `CloseDuplicate`,
`ReportLoss`, `ThreadEnds`. After `ReadFails` (an error other than the three that
mean "lost") the thread is "deaf": it waits with no read pending, and only
`pcDisconnect` wakes it. `ServerLeaves` is external.

**ClientWindow** adds `MainWindow` and the calls it makes to `PipeClient`. All its slots run on
the GUI thread; `slot` is the one that is inside `cls->disconnect()`, and `box` an
open message box, whose event loop delivers posted signals but no clicks. A lost
server is `LossPosted` by the reading thread and delivered by `OnDisconnect`;
clicks may come first. `pcSend` is `Written` or `NotWritten` (no handle, the server
gone, or no memory, which also cancels commands still pending); the slots do not look at its
result, which `sendResult` remembers. `unread` has the commands on their way to the
server, which `ServerReads`; with the server (`ServerGone`) they are lost. The answer "already connected" of `on_btnConnect_clicked` and of the
manager is in `ConnectFails`; `ConnectStartsAfresh` says that it is never given.

## 3. What the runs check

| Run | Instance | Distinct states |
|---|---|---|
| `PipeServerThread` | 2 instances, 1 kind of message, 2 messages unread, fair | 84 thousand |
| `ServerRegistry` | 3 threads at once, 2 sizes, at most 2 entries, fair | 106 thousand |
| `ImageServer_sessions` | 2 instances, endless directory, 1 message unread | 1.13 million |
| `ImageServer_finite` | 1 instance, finite directory, 2 detached threads, 2 messages unread | 298 thousand |
| `ImageServer_live` | 1 instance, finite directory, 1 detached thread, fair | 38 thousand |
| `Handlers` | both sides, 2 reading threads, 1 owner, 1 id, 1 handler, 1 slot besides spit out, fair | 48 thousand |
| `EnvelopMaker` | header of 3 bytes, up to 4 of metadata, 4 messages, 3 reading ends | 339 thousand |
| `ImageTransfer` | packets of 2 units, images of 0 to 3, 3 images, 2 messages on the way, fair | 651 thousand |
| `ClientWindow` | 2 connections, 3 commands unread, fair | 33 thousand |

- **PipeServerThread**: `ReadNeverSpins`, `ContextsOutliveStop` (safety) and
  `ConnectedClientIsRead`, `InstanceIsRecycled`, `StopReturns` (liveness).
  Instances share nothing but `psStopOverall`, so two of them show every
  interplay; one unread message more than the one being handled is enough for a
  client to leave with data unread.
- **ServerRegistry**: `EntriesAreLive` (no operation meets a context that its thread
  has destroyed), `NoThreadIsLost` (each running thread can be stopped, or is waited
  for, unless `psStop` has let it go), `BufferSizeIsTold` (what `CompleteIOProc` says of
  the buffer is so: the size can change only with no entry), `StoppedThreadEnds`. One
  thread may run without an entry after `psStop` while two others have theirs, and
  ids are used again, so the run has no bound in time.
- **Handlers**: `IteratorsStayValid`, `EmptyCallNeedsTwoUnlinks`, `ReplacedSpitOutIsQuiet`
  (when `pcLinkSpitOutHandler` returns to another thread, nobody is in the handler it
  replaced; the server's manager does not promise that) and `LinkingReturns`, from
  inside an action too. Two reading threads and an owner are enough for one to
  look up what the other two link and unlink; entries of different ids, and different
  slots, share nothing but what the sections guard, and a handler is told from none only.
- **ImageServer_sessions**: `PausedClientIsQuiet`, `NoUnrequestedImages`,
  `PoolEntriesAreUnique`: with a directory that does not end, nothing goes wrong
  between a client and its successor on the handle, unless the unlocked accesses to
  `pool` of two threads collide (`PoolRace`, after which the code promises nothing).
  `ServesClients` says that the server implements `ImageService`: the START of a client is
  answered with images until its BREAK, whatever Session a pause or an earlier client
  left behind, BREAK is done when nothing is on its way any more, and no instance is given
  to a client while something is at work on it for another. (A finite directory breaks
  that: it disconnects clients that have asked for nothing.)
- **ImageServer_finite**: with translations that end on their own and detached
  disconnects, `LiveTranslationIsOwned` still holds, an occupied key
  (`std::terminate`) is met only while a detached disconnect is in flight
  (`TerminateNeedsDetached`), a translation outlives its client only then
  (`NoForeignTranslation`), and after `stop()` only such a disconnect can
  have work to do (`StopLeavesNothing`). Two detached threads are enough for two
  cleanups to meet with and without the server thread.
- **ImageServer_live**: `stop()` returns whatever the clients do, and no server
  thread waits in `join` for ever.
- **EnvelopMaker**: `DeliversWhole` (refinement of `Framing`),
  `CompletionIsPositive` (the code's BOOST_ASSERT), `StreamIsOnePiece`,
  `NothingWithheld`. The three ends are the server's (message mode, a message
  fits), message mode with a buffer one byte longer than a header, and the
  client's (byte mode, a message does not fit). With a header of 3 and reads of
  5 bytes, reads cut headers after 1 and 2 bytes, cut the same header twice,
  end at a header's end, and hold several messages; an envelop may be replaced
  wherever a read ended, with a piece of a header cached or half a message in the stream.
- **ImageTransfer**: `ShownImagesAreExact` (pictures are exact, in order, each once, but
  for images whose own CMD_TOTALSIZE was lost), `OverrunNeedsLostSize` (the vector is as long as
  `total`, and only the data of such an image leave it), and `WholeImageIsShown`
  (liveness). That loss is the one the code has no defence against (pipeclient.cpp:78 trusts what an
  earlier image has left); the properties say that no other loss, and no sequence of losses,
  pauses and connections, does the same, and that the damage does not reach another
  image. Sizes 0 to 3 with packets of 2 give no image data, one full packet, a short one, and
  a full and a short one; three images are enough for one to be cut off and
  two to come after it, for a pause in the middle of one, and for an image without its size between
  two others. More full packets repeat the step from the first to the second; the theorems are about
  any number of them.

- **ClientWindow**: `OneReader`, `HandlesAreOwned`, `ReaderStartsClean`,
  `DestroyedIsQuiet` of the manager, `ConnectStartsAfresh` and
  `CommandsAlternate` of the window (a connection's commands are read in turn,
  unless one of its sends failed), and that every slot returns (`SlotsReturn`)
  and a lost server is dealt with without the user, unless a read failed before
  (`LossIsHandled`). Two
  connections are one that was lost or given up and whose event may still be on
  its way, and the one made after it; a connection nothing refers to any more is
  used again, so the run has no bound on their number in time.

The type invariants of all modules but `EnvelopMaker`, and `ManagerOutlivesThreads`, are
in no run: they are proved.

For every property there is a mutant of the code's model, a plausible slip, that
TLC finds to violate it ("mutants" in `PROJECT.json`; the operators
are marked "Mutant" where they are defined).

Bounds. `MaxInbox`, `Disconnectors`, `MaxMsgs`, `MaxMeta`, `MaxImages`,
`MaxSize`, `MaxWire`, `MaxUnread` and the sizes of `Conns`, `Threads`, `Sizes`, `Readers`,
`Owners`, `Ids`, `Hs` and `Callbacks` are bounds of the models, not of the code; `Limit` stands for `PIPE_UNLIMITED_INSTANCES`. A translation
that finds all `Disconnectors` busy waits for one of them. `EnvelopMaker` stops
when `MaxMsgs` messages were written and read, and is the only specification
checked without deadlock detection; in the others, the process's end is a step
of its own that stutters (`PSTTerminated`, `Terminated`), and everything else
counts as a deadlock.

## 4. Fairness

`PSTFairness`: every thread runs (weak fairness of its step; callbacks return);
`psStopOverall`, once called, goes on, and nobody has to call it. Strong fairness of
`StopObserved`: a wait that finds its event signalled does not for ever return
for the completions of a client that never pauses, instead; Windows looks at the
object before it delivers further APCs. The client is never assumed to do anything.

`Fairness` of `ServerRegistry`: threads run and an operation that has begun goes on
(weak); `Erases` needs the lock of the map, which `psStopOverall` may take again and
again, and is strong. Nobody has to call an operation.

`Fairness` of `ImageServer`: strong fairness for the steps of each thread,
because they need `mtx`: critical sections are short, and a translation
sleeps a second between two of its own, so that a thread that wants the mutex
again and again gets it. `ImageTransfer`: the server sends what it has begun, the client handles what has
arrived; both are weak.

`Fairness` of `Handlers`: a thread that holds a section goes on (weak); one that waits for
a section gets it some time (strong: the client's reading thread may take it again
and again, but gives it back between reads); actions return and messages end (strong,
as an action may link again and again). Nobody has to link.

`Fairness` of `ClientWindow`: a reading thread that has something to wake up for
runs (weak; a server that stays silent is never assumed to send). Strong fairness of
`EventObserved`, as in the server, and of `OnDisconnect`: a posted event is
delivered in the end, because input pauses. The slots go on where they have begun
(`DisconnectSignal`, `Disconnected`, `DestroyWindow` after `CloseWindow`). The
user never has to click, and a message box may stay open for ever.

## 5. What is proved

`PipeServerThreadProofs` proves, for any set of instances, any set of messages
and any inbox:

- `PSTTypeCorrect`: `PSTSpec => []PSTTypeOK`
- `ReadsNeverSpin`: `PSTSpec => []ReadNeverSpins`
- `StopIsSafe`: `PSTSpec => []ContextsOutliveStop`

None of the last two is inductive. The invariant `PSTInv` adds what a thread knows
of its instance where it reads (`ServedWhileReading`), that the connect's event
is only set for an instance that had a client (`EventMeansServed`; this is what
makes the reset after the timeout harmless), that only a thread told to stop
leaves (`LeavingIsStopped`), and what each phase of `psStopOverall` has
established (`StopPhases`). The proof splits `PSTNext`: a step of one instance's
thread, client or a forced disconnect keeps what is known of the others
(`OthersKeep`) and of its own (`MoverKeeps`); a step of `psStopOverall` is
treated apart. The assumptions are `NamedPipeAssumption` and
`PipeServerThreadAssumption` (no message is the placeholder `NoMsg`).

`ServerRegistryProofs` proves, for any threads, sizes and limit, `RegistryTypeCorrect`,
`EntriesStayLive`, `OnlyPsStopLosesThreads`, `BufferSizesAreTold` and
`DestructorWaits` (`Spec => []ManagerOutlivesThreads`). `RegistryInv` adds where the
owner may be when the map's lock is held and when the map is empty (`OwnerKnows`), that
the thread `psRun` has not resumed is the current one (`SuspendedIsCurrent`), that only a thread
that was told to leaves (`LeavingIsTold`), and that who was told was told by
`psStop` or is waited for (`ToldIsKnown`). The assumption is `ServerRegistryAssumption`
(the placeholders are no threads and no sizes).

`BinaryBufferProofs` proves, for any values of a byte, what `MakeEnvelop` relies on when it
puts a header together: what `write` writes (`WriteBytes`), that a piece cached by `reset`
and `write` is read back (`CachedPieceIsRestored`), that a piece written after another
continues it (`TwoPieces`), and that reads take bytes in order (`ReadTakesInOrder`).

`ImageServerProofs` proves, for any number of instances and of detached threads,
whether or not the directory ends:

- `ImageServerTypeCorrect`: `Spec => []TypeOK`
- `ManagerIsSafeInServer`: `Spec => [](ReadNeverSpins /\ ContextsOutliveStop)`
- `TranslationsAreOwned`: `Spec => []LiveTranslationIsOwned`
- `TerminationNeedsDetached`: `Spec => []TerminateNeedsDetached`
- `ForeignTranslationsEnd`: `Spec => []NoForeignTranslation`
- `PauseIsQuiet`: `Spec => []PausedClientIsQuiet`
- `StopIsClean`: `Spec => []StopLeavesNothing`

and for a directory that does not end while somebody watches (`~FilesEnd`):

- `EntriesAreUnique`: `Spec => []PoolEntriesAreUnique`
- `ImagesAreRequested`: `Spec => []NoUnrequestedImages`
- `ServerServesClients`: `Spec => ServesClients`, the refinement of `ImageService`

The module's actions are written around the manager's own, so that the manager's invariants
hold here (the lemma `ImageServerRefinesManager`); that is how `ManagerIsSafeInServer` and the
facts of `PSTInv` are had. Ownership is not inductive: `PoolErase` would lose a running
translation if its thread had not joined it. `OwnInv` adds `ErasedIsJoined`
(which holds because an erasure sends every other thread at that entry to
"dangling") and `OneInserts`, the mutual exclusion of `mtx` where it matters to
`pool`. `OwnedFrame` disposes of every step but the four that touch `pool` or
`mtx`.

The rest is about what an entry of `pool`, a Session and the commands of a client have to do
with each other. `SessionInv` adds to `OwnInv` and `PSTInv` six conjuncts per instance
(`SessionAgrees`): where the server thread is in the Server when it is at a point of
the manager (`PcAgrees`); an entry of `pool` has a Session, or a thread is about to erase
it (`MapAgrees`); the next command of its client, being handled or still to be read, is not
START (`PoolAgrees`), because commands come in turn (`InboxAgrees`) and what the client asked for
last is still to be read or was read last (`AskedAgrees`); and no translation outlives its
client into the next connection (`ClientAgrees`). Each of the last five has one exception,
`Helped`: a detached thread works on the entry. The detached thread takes the Session first
(under `mtx`) and the `std::thread` after it, and what it leaves in between is what the three
theorems that speak of `InFlight` except. The proof follows the threads: `CleanAgrees` is the step of a
cleanup that goes on, `ReturnAgrees` that of one that ends, `CleanupFrame` says that a cleanup
touches one instance only, `LeavingAgrees` is a client that leaves, by itself or not. TLC has
found `SessionInv` to hold in both safety runs of `ImageServer`. In an endless directory no
detached thread is started (`Alone`), and the exception is empty: that gives `EntriesAreUnique` and
`ImagesAreRequested`, and with `ServiceInv` the refinement. `ServiceInv` says what the service's
view of an instance rests on (`ServiceAgrees`): a translation that is told to end while its
client is there is told by the BREAK being carried out or by a server that closes. Each step of a thread is then a
step of the service or none: START is carried out by `HandleEmplace` and not before, BREAK when
`stopHandler` returns, an instance is free when its thread listens again. With detached threads both properties fail, as
`ImageServer_detached` and the hazards in `PROJECT.json` explain.

The further assumption is `ImageServerAssumption`: instances and detached
threads are different, and the commands are START and BREAK.

The first part of `ClientWindowProofs` is about the client manager, and proves, for any set of
connections, `OneThreadReads`,
`HandlesHaveOwners`, `ReadersStartClean` and `DestructionIsQuiet`
(`PCMSpec => []OneReader` and so on). `PCMInv` adds what
`m_threadData` has in each phase of the owner (`HandlesAgree`), and that a duplicate
is closed before its thread reports and ends (`DuplicateWhileReading`).
`NobodyReads` makes `pcConnect` one step: past its first test no thread reads.

The second part is about the window, whose actions are written around the manager's, so that
the four theorems hold of it (the lemma `WindowRefinesManager`). It proves `WindowTypeCorrect`,
`ConnectsStartAfresh` and `WindowAlternates` (`Spec => CommandsAlternate`). `WindowInv` relates the
buttons to the connection: Connect is enabled alone (`ConnectIsAlone`) and only
without a reading thread unless a box is open (`ConnectIsFree`), the
box "Connected" is about a connection nothing was asked of yet (`BoxIsFresh`), and
Start or Stop is enabled according to the last command, and the commands written and
not read continue those read in turn, as long as no send failed. `WrittenInTurn` and
`ReadInTurn` are the facts of sequences behind it, `ClickKeepsTurns` and `OthersKeepTurns`
the steps. The
assumptions are `PipeClientManagerAssumption` (no connection is the placeholder
`NoConn`) and `ClientWindowAssumption` (the two commands and "none" differ, `MaxUnread`
is a natural number).

`HandlersProofs` proves, for any threads, ids, handlers and slots, on either side,
`HandlersTypeCorrect`, `IteratorsAreValid` (`Spec => []IteratorsStayValid`),
`EmptyCallsNeedTwoUnlinks` and `ReplacedSpitOutRests`. `HandlersInv` says who
holds a section from where its holder is: the map's is held by a thread in "lookup" or
"linking" and by no other (`MapIsLocked`); the client's reading thread holds the
spit out handler's from `CompleteProc` to `SpitOutReturns`, and no other thread can be in
between (`SpitOutIsLocked`). From the first, no two threads use iterators at once; from the
second, `LinkSlot` of another thread has to wait. `EmptyEntriesWereUnlinked` traces an empty
entry to the link that made it, `PointsOfOwners` and `LocalsAreSet` say what a thread's local
variables have where it is. The assumption is `HandlersAssumption`: placeholders, ids,
slots and threads are different things.

`EnvelopMakerProofs` proves, for any lengths of headers, metadata and buffers, any number
of messages and any reading ends:

- `TypeCorrect`: `Spec => []TypeOK`
- `CompletionStaysPositive`: `Spec => []CompletionIsPositive`
- `StreamStaysOnePiece`: `Spec => []StreamIsOnePiece`
- `NothingStaysWithheld`: `Spec => []NothingWithheld`
- `DeliversWholeMessages`: `Spec => DeliversWhole`, the refinement of `Framing`

All five follow from one inductive invariant, `EnvelopInv`: everything written is one run of
bytes in which message k starts at a place `S[k]`, and all bytes under way are at their
places in it. `Layout` says where messages start; `WirePlaced`, `ReadPlaced`, `HeaderPlaced`
and `BodyPlaced` say that the wire, the buffer of a read, a cached piece of a header and the
metadata so far are runs that follow each other without a gap, from the first byte of the
message that is handed over next (`Coming`). `MessageModeCuts` and `ServerReadsWhole` add what
message mode is worth. There is a lemma for each step of `MakeEnvelop` (`HeaderReadKeeps`,
`BodyPortionKeeps`, ...), for the read (`ReadCompletesKeeps`), for the writer, who makes the
run longer (`LayoutGrows`, `WriteMessageKeeps`), and for a new connection. A header that was cached is put
together with the facts of `BinaryBufferProofs`; that a message comes out whole
(`BodyIsWhole`) is that its metadata is the run between two places. Assumptions:
`EnvelopMakerAssumption` (a buffer has room for a header, which `psSetOutputBufferSize` sees to), and
`ServerBufferAssumption`: the end that keeps its envelop for the next client, the server's, is
in message mode and its buffer has room for a message of a client. The code keeps to that: a
client's message is a header and the four bytes of a command (`PipeClient::send`), and the server's
buffer has 1024 bytes; were it broken, half a message of one client would be
completed by the next.

`ImageTransferProofs` proves, for any size of packets, any number and sizes of images and any
length of the pipe, whatever messages are lost:

- `TypeCorrect`: `Spec => []TypeOK`
- `ShowsExactImages`: `Spec => []ShownImagesAreExact`
- `OverrunsNeedLostSize`: `Spec => []OverrunNeedsLostSize`

A message does not say which image it belongs to, so that `TransferInv` gives each message
on the wire a tag, its image and its number in it, and the client the tag of the last message it
handled. Tags grow along the wire (`InOrder`), and no packet comes without the TOTALSIZE of its
image before it or already handled, unless that one was lost (`AnnouncedFirst`). `Collected`
is what saves the client from showing an image with a hole: after p packets it has all of
them in their places, or `tempTotal` is short and stays short, because a prefix of more packets is
longer (`PrefixGrows`); so `tempTotal` reaches `total` only with the last packet
of a complete image. An image whose size was lost has none of that: its pieces are counted against
the `total` an earlier one has left. It is shown at most once all the same: `ShownBefore` remembers which
image each picture is, and that `total` is 0 after it, which no packet can complete until the next size comes.

Only model-checked: the liveness properties (`ConnectedClientIsRead`, `InstanceIsRecycled`,
`StopReturns`, `StopCompletes`, `ServerJoinsReturn`, `WholeImageIsShown`, `SlotsReturn`,
`LossIsHandled`, `LinkingReturns`, `StoppedThreadEnds`), as fairness is beyond the prover. Every other property of
a passing run is stated by a theorem.

## 6. Where code and comments disagree

Each of these is a run that TLC must find violated; `PROJECT.json` quotes the lines.

- `PipeServerThread_await`: after ERROR_NO_DATA the thread "awaits" a connection
  that nobody can make; the instance is lost until the server stops.
- `ImageServer_detached`: the detached `disconnect_pipe` can disconnect another
  client than the one whose images ran out.
- `ClientWindow_box`: "Connected" is shown, and Start enabled, for a connection whose
  loss was handled while the message box was open.

Seen while modelling, and not a run of their own: whether a read has a whole header is
tested without the bytes cached before, so that a message can wait for one read more
than it needs (`NothingWithheld` allows for that); `getTotal` sets the `count`
that `getCount` has just stored back to 0 (nothing reads it); `Server::start` takes
every id but 0 for a success, and `psRun` fails with a negative one; the notice of
disconnection that `Server::stop` announces is never sent; a thread that `psStop` has
stopped is not waited for by `psStopOverall` or by the destructor (that is why
`NoThreadIsLost` and `ManagerOutlivesThreads` except it).

## 7. What is not modelled

- `psSetPipeId`, `pcSetOutputBufferSize` (nobody changes either after the start),
  `get_threads_count`, and the count `Server::start` returns; painting images.
- `no_lock`, `empty_locker` and the boost-compatible mutex of `Locker.h`, which nobody uses.
- Overlapped writes that are still pending when their `OVERLAPPED`, event or buffer is used
  again (a hazard); what a client does after it wrote outside of its vector; images
  of 2 GiB and more (another hazard). A detached thread that is still in `disconnect_pipe` when `stop()`
  returns is in `ImageServer` (`StopLeavesNothing` excepts it); what it then does to
  a `Server` that is gone is not.
- Failures of memory, of events and of threads' creation; `WAIT_FAILED`;
  `FlushFileBuffers` in `~THRDSVRCONTEXT`, which can wait for a client to read.
- The owners' restraint in the use of the library: `PipeClient` and `Server` link their handlers in their
  constructors only and never change the buffer's size. `Handlers` and `BufferSizeIsTold` are about what
  the library's interface allows its owners, handlers linked at any time and a size changed between
  runs, and not about what these two programs do with it.
- Relaxed memory order of `shutdown`: the model's flag is seen at once. A later
  sight only delays the two tests of it, which the model delays anyhow.
- What a program does after undefined behaviour; after `PoolRace` the model has
  ended, and the runs that go past a race show its benign outcomes.
- The content of images, the formats of packets, logging.
- `Server/pipe` (a second copy of the library that no project file names; it differs in
  the layout of `MakeEnvelop` and a comment), `Client/client.cpp` (the former `PipeClient`),
  `ImageReceiver.h`, `commands.h` (unused), build files.

## 8. Plan

Done: every module of section 2, their runs, and proofs of every safety property and
refinement the runs check.

Next, in this order:

1. What the two sides assume of each other, as one theorem: a composition of `ClientWindow`'s
   promise (`CommandsAlternate`) with the clients of `ImageServer`.
2. What `ImageService` becomes with a finite directory and its detached disconnects.
3. Overlapped writes: `SendAnswer` and `pcSend` on an `OVERLAPPED` that is still in
   use, and the buffer they write from.
