SPECIFICATION FairSpec
CONSTANTS
    LinesToBuffer = 1
    Capacity = 2
    SizeLimit = 3
    Threads = 2
    MaxFd = 2
    MaxForeign = 1
    MaxLines = 5
INVARIANTS
    LinesAccounted
    OwnFileOnly
    NoFileLeaks
    FilesBounded
PROPERTIES
    OpeningEnds
CHECK_DEADLOCK FALSE
