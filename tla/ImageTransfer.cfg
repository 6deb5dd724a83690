SPECIFICATION FairSpec
CONSTANTS
    Unit = 2
    MaxSize = 3
    MaxImages = 3
    MaxWire = 2
INVARIANTS ShownImagesAreExact OverrunNeedsLostSize
PROPERTIES WholeImageIsShown
