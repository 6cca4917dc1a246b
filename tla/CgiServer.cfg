SPECIFICATION Spec
CONSTANTS
    b1 = b1
    b2 = b2
    b3 = b3
    Browsers <- AllBrowsers
    NumSlots = 2
    Target <- MayAsk
    Query <- Queries
    Leaving <- OneLeaving
    Reached <- Reaching
    Script <- Scripts
    Wordy = {"ls"}
    Dying <- OneDying
    Window = 1
INVARIANTS
    Transcript
    LastNamed
    Contained
PROPERTIES
    PageEnds
CHECK_DEADLOCK FALSE
