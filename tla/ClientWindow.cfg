SPECIFICATION FairSpec
CONSTANTS
    Conns = {c1, c2}
    START = START
    BREAK = BREAK
    NoMsg = NoMsg
    MaxUnread = 3
    c1 = c1
    c2 = c2
INVARIANTS OneReader HandlesAreOwned ReaderStartsClean DestroyedIsQuiet ConnectStartsAfresh
PROPERTIES CommandsAlternate SlotsReturn LossIsHandled
