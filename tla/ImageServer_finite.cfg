SPECIFICATION Spec
CONSTANTS
    Pipes = {p1}
    Disconnectors = {d1, d2}
    FilesEnd = TRUE
    START = START
    BREAK = BREAK
    Msgs = {START, BREAK}
    MaxInbox = 2
    p1 = p1
    d1 = d1
    d2 = d2
SYMMETRY DetachedSymmetry
INVARIANTS TerminateNeedsDetached LiveTranslationIsOwned NoForeignTranslation StopLeavesNothing
