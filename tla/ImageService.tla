---------------------------- MODULE ImageService ----------------------------
(***************************************************************************)
(* What class Server promises the clients of its pipe, without threads,    *)
(* pool, Sessions and flags: the commands of a client are carried out one  *)
(* after the other, also when it has left meanwhile; images go to a client *)
(* that is there from the START that was carried out until a BREAK is, and *)
(* stop for no other reason than that, its leaving or the closing of the   *)
(* service; nobody comes to an instance that still works for another.      *)
(***************************************************************************)
EXTENDS Sequences

CONSTANTS
    Pipes,         \* the instances of the pipe, each for one client at a time
    START, BREAK,  \* what a client can ask for
    NoMsg          \* no command

VARIABLES
    there,     \* the instances with a client
    unread,    \* the commands written to an instance and not taken yet
    doing,     \* the command an instance is carrying out
    watching,  \* the instances with images on their way
    got,       \* the instances whose client has got an image
    closed     \* was the service told to stop?

svcVars == <<there, unread, doing, watching, got, closed>>

SvcInit ==
    /\ there = {}
    /\ unread = [h \in Pipes |-> <<>>]
    /\ doing = [h \in Pipes |-> NoMsg]
    /\ watching = {}
    /\ got = {}
    /\ closed = FALSE

-----------------------------------------------------------------------------
(* The clients *)

\* A client finds an instance that is done with the one before.
Arrives(h) ==
    /\ h \notin there /\ unread[h] = <<>> /\ doing[h] = NoMsg /\ h \notin watching
    /\ there' = there \cup {h}
    /\ UNCHANGED <<unread, doing, watching, got, closed>>

Asks(h, m) ==
    /\ h \in there
    /\ unread' = [unread EXCEPT ![h] = Append(@, m)]
    /\ UNCHANGED <<there, doing, watching, got, closed>>

\* What the client has asked for will still be carried out.
Leaves(h) ==
    /\ h \in there
    /\ there' = there \ {h}
    /\ got' = got \ {h}
    /\ UNCHANGED <<unread, doing, watching, closed>>

-----------------------------------------------------------------------------
(* The service *)

Takes(h) ==
    /\ doing[h] = NoMsg /\ unread[h] # <<>>
    /\ doing' = [doing EXCEPT ![h] = Head(unread[h])]
    /\ unread' = [unread EXCEPT ![h] = Tail(@)]
    /\ UNCHANGED <<there, watching, got, closed>>

Done(h) == doing' = [doing EXCEPT ![h] = NoMsg]

Starts(h) ==
    /\ doing[h] = START /\ h \notin watching
    /\ watching' = watching \cup {h}
    /\ Done(h)
    /\ UNCHANGED <<there, unread, got, closed>>

Refuses(h) ==
    /\ doing[h] = START /\ closed
    /\ Done(h)
    /\ UNCHANGED <<there, unread, watching, got, closed>>

\* A BREAK is carried out when nothing is on its way any more.
Pauses(h) ==
    /\ doing[h] = BREAK /\ h \notin watching
    /\ Done(h)
    /\ UNCHANGED <<there, unread, watching, got, closed>>

GivesImage(h) ==
    /\ h \in watching /\ h \in there
    /\ got' = got \cup {h}
    /\ UNCHANGED <<there, unread, doing, watching, closed>>

\* No image more: the client has asked for that or left, or the service closes.
Ends(h) ==
    /\ h \in watching
    /\ doing[h] = BREAK \/ h \notin there \/ closed
    /\ watching' = watching \ {h}
    /\ UNCHANGED <<there, unread, doing, got, closed>>

Closes ==
    /\ closed' = TRUE
    /\ UNCHANGED <<there, unread, doing, watching, got>>

\* Only a service that closes drops a client and what it has asked for.
Drops(h) ==
    /\ closed /\ doing[h] = NoMsg
    /\ there' = there \ {h}
    /\ unread' = [unread EXCEPT ![h] = <<>>]
    /\ got' = got \ {h}
    /\ UNCHANGED <<doing, watching, closed>>

-----------------------------------------------------------------------------

SvcNext ==
    \/ \E h \in Pipes :
          \/ Arrives(h) \/ (\E m \in {START, BREAK} : Asks(h, m)) \/ Leaves(h)
          \/ Takes(h) \/ Starts(h) \/ Refuses(h) \/ Pauses(h)
          \/ GivesImage(h) \/ Ends(h) \/ Drops(h)
    \/ Closes

SvcSpec == SvcInit /\ [][SvcNext]_svcVars
=============================================================================
