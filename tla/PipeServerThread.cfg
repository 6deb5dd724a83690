SPECIFICATION PSTFairSpec
CONSTANTS
    Pipes = {p1, p2}
    Msgs = {m}
    MaxInbox = 2
    p1 = p1
    p2 = p2
    m = m
INVARIANTS ReadNeverSpins ContextsOutliveStop
PROPERTIES ConnectedClientIsRead InstanceIsRecycled StopReturns
