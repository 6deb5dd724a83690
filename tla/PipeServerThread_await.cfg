SPECIFICATION PSTSpec
CONSTANTS
    Pipes = {p1}
    Msgs = {m}
    MaxInbox = 1
    p1 = p1
    m = m
INVARIANTS AwaitedClientCanCome
