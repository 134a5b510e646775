CONSTANTS
    Peer = {a, b}
    WindowSize = 2
    MaxSeq = 3
    Closer = a
    Initiator = i
    Responder = r
    Id = {x, y, z}
    None = None
    Event = {1, 2}
    MaxBufferSize = 3
    StreamLength = 7
    MaxResets = 1
    MaxSkip = 2
    MaxSessions = 2
    MaxAnswers = 3
    MaxMessages = 2
    MaxEpoch = 3
    MaxPaths = 2
    MaxEntries = 3
SPECIFICATION MCSpec
INVARIANTS
    NonceUniqueLive
    KeyAgreement
    NoEarlyRefusal
    EachMessageOnce
    ForwardSecrecy
    SessionsAgree
    GroupEpochsAgree
    TamperingFound
PROPERTIES
    ImplementsAtMostOnceChannel
    TeardownDelivers
    BufferDelivers
CHECK_DEADLOCK FALSE
