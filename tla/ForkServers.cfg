SPECIFICATION Spec
CONSTANTS
    c1 = c1
    c2 = c2
    c3 = c3
    Parent = Parent
    Clients <- ThreeClients
    Request <- Requests
    Unknown <- JustOne
    Vanishing <- ASecond
    Buffer = 2
    MayFail = TRUE
INVARIANTS
    SocketsPrivate
    NoChildForgotten
    ReplyWhole
PROPERTIES
    Served
    HungUp
CHECK_DEADLOCK FALSE
