SPECIFICATION Spec
CONSTANTS
    Pipes = {p1}
    Disconnectors = {d1}
    FilesEnd = TRUE
    START = START
    BREAK = BREAK
    Msgs = {START, BREAK}
    MaxInbox = 1
    p1 = p1
    d1 = d1
PROPERTIES DetachedHitsItsClient
