SPECIFICATION Spec
CONSTANTS
    u1 = u1
    u2 = u2
    u3 = u3
    u4 = u4
    alice = alice
    Listener = Listener
    Nobody = Nobody
    NoName = NoName
    Peers <- FourPeers
    Vanishing <- JustOne
    MaxUsers = 3
    Texts <- AllTexts
    MaxTexts = 2
    Lockstep = TRUE
INVARIANTS
    Registry
    NamesUnique
    PipesBetween
    WriteEndsClosed
PROPERTIES
    Contained
    Answered
CHECK_DEADLOCK FALSE
