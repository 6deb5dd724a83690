SPECIFICATION FairSpec
CONSTANTS
    Threads = {t1, t2, t3}
    Sizes = {small, large}
    Limit = 2
    t1 = t1
    t2 = t2
    t3 = t3
    small = small
    large = large
INVARIANTS EntriesAreLive NoThreadIsLost BufferSizeIsTold
PROPERTIES StoppedThreadEnds
