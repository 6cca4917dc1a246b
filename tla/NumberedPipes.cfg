SPECIFICATION Spec
CONSTANTS
    SliceSize = 2
    Depth = 4
    MaxCmds = 5
    Dests <- NearDests
    Bangs <- AllBangs
    MaxLines = 3
INVARIANTS
    TypeOK
    NumberedDelivery
    PipelineChain
    ReaderCanSeeEof
    DescriptorsHeld
PROPERTIES
    Contract
