------------------------------ MODULE Handlers ------------------------------
(***************************************************************************)
(* The handlers an owner links into COVPipeServerManager (side "server")   *)
(* or COVPipeClientManager (side "client"), and how the reading threads    *)
(* find and call them: CompleteIOProc or CompleteOutputProc calls the spit *)
(* out handler (MakeEnvelop), which calls psPerfomAction for each message, *)
(* which calls the action linked to its nActionId; the cleaner of the      *)
(* envelop and the handler of a connection that is gone are called from    *)
(* copies.  Owners may link at any time, from their own threads and from   *)
(* the actions.  Each slot has a lock of its own, and so has the map of    *)
(* actions (m_auxLockPerformHandler, m_action_handlers_map).               *)
(*                                                                         *)
(* The server copies the spit out handler under the lock and calls the     *)
(* copy; the client calls it while it holds the lock.                      *)
(***************************************************************************)
EXTENDS Locker

CONSTANTS
    Readers,   \* reading threads, and others that call disconnect_pipe
    Owners,    \* other threads that link handlers
    Ids,       \* action ids
    Hs,        \* handlers
    Callbacks  \* the other slots: the cleaner of the envelop, the handler of a client
               \* that left or of a lost server

Null == "Null"        \* an empty std::function, or a null pointer to a member
Missing == "Missing"  \* the map has no entry

Slots == {"spit_out"} \cup Callbacks
Locks == Slots \cup {"actions"}
Callables == Hs \cup {Null}
AllThreads == Readers \cup Owners

ASSUME HandlersAssumption ==
    /\ {Null, Missing} \cap Hs = {} /\ NoThread \notin AllThreads
    /\ Slots \cap Ids = {} /\ "all" \notin Slots \cup Ids
    /\ "spit_out" \notin Callbacks /\ "actions" \notin Slots
    /\ Owners \cap Readers = {}

VARIABLES
    side,      \* which manager this is
    slot,      \* slot[s]: the handler linked to s
    actions,   \* the map of actions
    section,   \* section[l]: the critical section of l
    point,     \* where each thread is
    what,      \* the id or slot a thread is looking up or linking
    with,      \* the handler it has found, or links
    found,     \* did its lookup in the map find an entry?
    emptied    \* history: ids that were unlinked while they were not linked

registry == <<slot, actions>>
locals == <<point, what, with, found>>
vars == <<side, registry, section, locals, emptied>>

\* A client manager has one reading thread at a time, the one of its connection.
MayRead(t) == side = "client" => \A r \in Readers \ {t} : point[r] = "idle"

\* A reading thread in the spit out handler, and in one of the actions it calls.
InSpitOut == {"spit_out", "lookup"}
InAction == {"action", "acting", "wants", "linking"}
Points == {"idle", "copied", "callback"} \cup InSpitOut \cup InAction

Targets == Slots \cup Ids \cup {"all"}

TypeOK ==
    /\ side \in {"server", "client"}
    /\ slot \in [Slots -> Callables]
    /\ actions \in [Ids -> Callables \cup {Missing}]
    /\ section \in [Locks -> Section(AllThreads)]
    /\ point \in [AllThreads -> Points]
    /\ what \in [AllThreads -> Targets]
    /\ with \in [AllThreads -> Callables \cup {Missing}]
    /\ found \in [AllThreads -> BOOLEAN]
    /\ emptied \subseteq Ids

Init ==
    /\ side \in {"server", "client"}
    /\ slot = [s \in Slots |-> Null]
    /\ actions = [id \in Ids |-> Missing]
    /\ section = [l \in Locks |-> Free]
    /\ point = [t \in AllThreads |-> "idle"]
    /\ what = [t \in AllThreads |-> "all"]
    /\ with = [t \in AllThreads |-> Null]
    /\ found = [t \in AllThreads |-> FALSE]
    /\ emptied = {}

Goes(t, p) == point' = [point EXCEPT ![t] = p]

\* Local variables end with their function.
Done(t, p) ==
    /\ Goes(t, p)
    /\ what' = [what EXCEPT ![t] = "all"]
    /\ with' = [with EXCEPT ![t] = Null]
    /\ found' = [found EXCEPT ![t] = FALSE]

Enters(t, l) == section' = [section EXCEPT ![l] = Lock(@, t)]
Exits(l) == section' = [section EXCEPT ![l] = Unlock(@)]

-----------------------------------------------------------------------------
(* A read completes *)

\* Mutant: the client, too, calls a copy.
CompleteProcUnlocked(t) ==
    /\ point[t] = "idle"
    /\ Scoped(section["spit_out"], t)
    /\ slot["spit_out"] # Null
    /\ Goes(t, "spit_out")
    /\ UNCHANGED <<side, registry, section, what, with, found, emptied>>

\* CompleteIOProc, CompleteOutputProc: without a handler they return.
CompleteProc(t) ==
    /\ point[t] = "idle"
    /\ Scoped(section["spit_out"], t)
    /\ slot["spit_out"] # Null
    /\ IF side = "client" THEN Enters(t, "spit_out") ELSE UNCHANGED section
    /\ Goes(t, "spit_out")
    /\ UNCHANGED <<side, registry, what, with, found, emptied>>

\* Mutant: the lock is kept.
SpitOutReturnsLocked(t) ==
    /\ point[t] = "spit_out"
    /\ Done(t, "idle")
    /\ UNCHANGED <<side, registry, section, emptied>>

\* The handler has no more messages.
SpitOutReturns(t) ==
    /\ point[t] = "spit_out"
    /\ IF side = "client" THEN Exits("spit_out") ELSE UNCHANGED section
    /\ Done(t, "idle")
    /\ UNCHANGED <<side, registry, emptied>>

\* psPerfomAction finds the entry of the message's nActionId (par_action_not_found
\* changes nothing)...
FindAction(t, id) ==
    /\ point[t] = "spit_out"
    /\ MayEnter(section["actions"], t)
    /\ actions[id] # Missing
    /\ Enters(t, "actions")
    /\ what' = [what EXCEPT ![t] = id]
    /\ Goes(t, "lookup")
    /\ UNCHANGED <<side, registry, with, found, emptied>>

\* ... and copies what the iterator points to.
CopyAction(t) ==
    /\ point[t] = "lookup"
    /\ with' = [with EXCEPT ![t] = actions[what[t]]]
    /\ Exits("actions")
    /\ Goes(t, "action")
    /\ UNCHANGED <<side, registry, what, found, emptied>>

\* The copy is called; nothing comes after the call of an empty handler.
CallAction(t) ==
    /\ point[t] = "action"
    /\ with[t] # Null
    /\ Done(t, "acting")
    /\ UNCHANGED <<side, registry, section, emptied>>

ActionReturns(t) ==
    /\ point[t] = "acting"
    /\ Goes(t, "spit_out")
    /\ UNCHANGED <<side, registry, section, what, with, found, emptied>>

-----------------------------------------------------------------------------
(* The end of a connection and of a reading thread *)

\* The handler is copied under its lock...
CopyCallback(t, s) ==
    /\ point[t] = "idle"
    /\ Scoped(section[s], t)
    /\ what' = [what EXCEPT ![t] = s]
    /\ with' = [with EXCEPT ![t] = slot[s]]
    /\ Goes(t, "copied")
    /\ UNCHANGED <<side, registry, section, found, emptied>>

\* ... and the copy is called if it is a handler.
TestCallback(t) ==
    /\ point[t] = "copied"
    /\ IF with[t] # Null
       THEN Goes(t, "callback") /\ UNCHANGED <<what, with, found>>
       ELSE Done(t, "idle")
    /\ UNCHANGED <<side, registry, section, emptied>>

CallbackReturns(t) ==
    /\ point[t] = "callback"
    /\ Done(t, "idle")
    /\ UNCHANGED <<side, registry, section, emptied>>

-----------------------------------------------------------------------------
(* Linking: by an owner's thread, or by an action on its reading thread *)

Outside(t) == IF t \in Owners THEN "idle" ELSE "acting"

\* The owner calls a function that links h to target, or pcResetHandlers ("all").
Wants(t, target, h) ==
    /\ point[t] = Outside(t)
    /\ target = "all" => side = "client"
    /\ what' = [what EXCEPT ![t] = target]
    /\ with' = [with EXCEPT ![t] = h]
    /\ Goes(t, "wants")
    /\ UNCHANGED <<side, registry, section, found, emptied>>

\* psSetSpitOutHandler, pcLinkSpitOutHandler and the setters of the other slots.
LinkSlot(t) ==
    /\ point[t] = "wants" /\ what[t] \in Slots
    /\ Scoped(section[what[t]], t)
    /\ slot' = [slot EXCEPT ![what[t]] = with[t]]
    /\ Done(t, Outside(t))
    /\ UNCHANGED <<side, actions, section, emptied>>

\* Mutant: the map is cleared without its lock.
ResetUnlocked(t) ==
    /\ point[t] = "wants" /\ what[t] = "all"
    /\ actions' = [id \in Ids |-> Missing]
    /\ Done(t, Outside(t))
    /\ UNCHANGED <<side, slot, section, emptied>>

\* pcResetHandlers
Reset(t) ==
    /\ point[t] = "wants" /\ what[t] = "all"
    /\ Scoped(section["actions"], t)
    /\ actions' = [id \in Ids |-> Missing]
    /\ Done(t, Outside(t))
    /\ UNCHANGED <<side, slot, section, emptied>>

\* psLinkAction, pcLinkActionHandler: the entry is looked up...
LinkFind(t) ==
    /\ point[t] = "wants" /\ what[t] \in Ids
    /\ MayEnter(section["actions"], t)
    /\ Enters(t, "actions")
    /\ found' = [found EXCEPT ![t] = actions[what[t]] # Missing]
    /\ Goes(t, "linking")
    /\ UNCHANGED <<side, registry, what, with, emptied>>

\* Mutant: a null handler replaces the one that is found.
LinkStoreNull(t) ==
    /\ point[t] = "linking"
    /\ actions' = [actions EXCEPT ![what[t]] = with[t]]
    /\ emptied' = IF ~found[t] /\ with[t] = Null THEN emptied \cup {what[t]} ELSE emptied
    /\ Exits("actions")
    /\ Done(t, Outside(t))
    /\ UNCHANGED <<side, slot>>

\* ... and replaced, or erased for a null handler, when it is found; what is not found
\* is inserted, a null handler too.
LinkStore(t) ==
    /\ point[t] = "linking"
    /\ actions' = [actions EXCEPT ![what[t]] =
                      IF found[t] /\ with[t] = Null THEN Missing ELSE with[t]]
    /\ emptied' = IF ~found[t] /\ with[t] = Null THEN emptied \cup {what[t]} ELSE emptied
    /\ Exits("actions")
    /\ Done(t, Outside(t))
    /\ UNCHANGED <<side, slot>>

Links(t) == LinkSlot(t) \/ Reset(t) \/ LinkFind(t) \/ LinkStore(t)

-----------------------------------------------------------------------------

Reads(t) ==
    \/ CompleteProc(t) \/ SpitOutReturns(t)
    \/ (\E id \in Ids : FindAction(t, id)) \/ CopyAction(t) \/ CallAction(t) \/ ActionReturns(t)
    \/ (\E s \in Callbacks : CopyCallback(t, s)) \/ TestCallback(t) \/ CallbackReturns(t)

\* The process does not survive the call of an empty handler.
Crashed == \E t \in Readers : point[t] = "action" /\ with[t] = Null

Next ==
    \/ /\ ~Crashed
       /\ \/ \E t \in Readers : MayRead(t) /\ Reads(t)
          \/ \E t \in AllThreads :
                \/ \E target \in Targets, h \in Callables : Wants(t, target, h)
                \/ Links(t)
    \/ Crashed /\ UNCHANGED vars

Spec == Init /\ [][Next]_vars

\* Threads run, handlers return, and a thread that waits for a section enters it some
\* time, between the messages.
Fairness ==
    /\ \A t \in AllThreads :
          /\ WF_vars(~Crashed /\ (CopyAction(t) \/ CallAction(t) \/ LinkStore(t)))
          /\ SF_vars(~Crashed /\ (LinkSlot(t) \/ Reset(t) \/ LinkFind(t)))
    /\ \A t \in Readers :
          /\ SF_vars(~Crashed /\ SpitOutReturns(t))
          /\ SF_vars(~Crashed /\ ActionReturns(t))

FairSpec == Spec /\ Fairness

-----------------------------------------------------------------------------
(* Properties *)

\* An entry that was found in the map is there, and one that was not is not, until the
\* thread is done with it, whoever else links, unlinks or resets.
IteratorsStayValid ==
    \A t \in AllThreads :
        /\ point[t] = "lookup" => actions[what[t]] # Missing
        /\ point[t] = "linking" => (found[t] <=> actions[what[t]] # Missing)

\* An empty handler is called only when it was linked to an id that was not linked: to
\* unlink an action once is safe, whatever is read meanwhile.
EmptyCallNeedsTwoUnlinks ==
    \A t \in Readers : point[t] = "action" /\ with[t] = Null => what[t] \in emptied

\* When pcLinkSpitOutHandler returns to another thread, no reading thread is in the
\* handler it replaced: its object may be destroyed.  (The server's may still run.)
ReplacedSpitOutIsQuiet ==
    [][\A t \in Owners :
          side = "client" /\ what[t] = "spit_out" /\ LinkSlot(t) =>
              \A r \in Readers : point[r] \notin InSpitOut \cup InAction]_vars

\* Linking returns, from wherever it is called, as long as the handlers do.
LinkingReturns == \A t \in AllThreads : (point[t] = "wants") ~> (point[t] # "wants" \/ Crashed)

=============================================================================
