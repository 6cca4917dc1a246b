SPECIFICATION Spec
CONSTANTS
    u1 = u1
    u2 = u2
    alice = alice
    NoName = NoName
    Nobody = Nobody
    Shells <- TwoShells
    Residents <- TwoShells
    MaxUsers = 3
    MaxMsgs = 1
    Names <- OneName
    MaxOps = 1
INVARIANTS
    SeatsOwned
    NoLostWakeup
PROPERTIES
    MailRead
