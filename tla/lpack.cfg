SPECIFICATION FairSpec
CONSTANTS
    Base = 22
    Size16 = 2
    Size32 = 3
    Size64 = 4
    Unit = 4
    Slack = 3
    FlushLimits = {4, 9, 700}
    Programs <- MCPrograms
    Segments = {1, 4, 250}
    Cuts = {0, 1, 2, 3}
INVARIANTS ReadBack ChunksAreWhole RoomAccounted
PROPERTIES ReadingEnds
