SPECIFICATION JSpec
CONSTANTS
    SliceSize = 1
    Depth = 3
    MaxCmds = 3
    Dests <- NearDests
    Bangs <- PlainBangs
    MaxLines = 3
    Cap = 3
    Amounts <- OneUnit
INVARIANTS
    EofIsFinal
PROPERTIES
    LineEnds
    JobsEnd
