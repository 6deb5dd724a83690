SPECIFICATION Spec
CONSTANTS
    Pipes = {p1, p2}
    Disconnectors = {}
    FilesEnd = FALSE
    START = START
    BREAK = BREAK
    Msgs = {START, BREAK}
    MaxInbox = 1
    p1 = p1
    p2 = p2
SYMMETRY PipeSymmetry
INVARIANTS PoolEntriesAreUnique PausedClientIsQuiet NoUnrequestedImages
PROPERTIES ServesClients
