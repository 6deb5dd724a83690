SPECIFICATION FairSpec
CONSTANTS
    Readers = {r1, r2}
    Owners = {o}
    Ids = {a}
    Hs = {h}
    Callbacks = {"gone"}
    r1 = r1
    r2 = r2
    o = o
    a = a
    h = h
INVARIANTS IteratorsStayValid EmptyCallNeedsTwoUnlinks
PROPERTIES ReplacedSpitOutIsQuiet LinkingReturns
