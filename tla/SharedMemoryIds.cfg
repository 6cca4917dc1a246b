SPECIFICATION Spec
CONSTANTS
    u1 = u1
    u2 = u2
    alice = alice
    NoName = NoName
    Nobody = Nobody
    Shells <- TwoShells
    Residents <- NoNames
    MaxUsers = 3
    MaxMsgs = 1
    Names <- NoNames
    MaxOps = 0
INVARIANTS
    IdsUnique
