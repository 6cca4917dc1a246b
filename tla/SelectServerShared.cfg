SPECIFICATION Spec
CONSTANTS
    u1 = u1
    u2 = u2
    u3 = u3
    u4 = u4
    alice = alice
    Listener = Listener
    Nobody = Nobody
    NoName = NoName
    Peers <- ThreePeers
    Vanishing <- NoPeers
    MaxUsers = 3
    Texts <- PairTexts
    MaxTexts = 3
    Lockstep = FALSE
PROPERTIES
    Attribution
CHECK_DEADLOCK FALSE
