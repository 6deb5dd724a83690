SPECIFICATION Spec
CONSTANTS
    H = 3
    MaxMeta = 4
    MaxMsgs = 4
    Ends <- AllEnds
INVARIANTS TypeOK CompletionIsPositive StreamIsOnePiece NothingWithheld
PROPERTIES DeliversWhole
CHECK_DEADLOCK FALSE
