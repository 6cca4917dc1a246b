SPECIFICATION JSpec
CONSTANTS
    SliceSize = 2
    Depth = 3
    MaxCmds = 1
    Dests <- NearDests
    Bangs <- PlainBangs
    MaxLines = 3
    Cap = 1
    Amounts <- OneOrTwo
PROPERTIES
    LineEnds
CHECK_DEADLOCK FALSE
