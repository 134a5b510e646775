CONSTANTS
    Initiator = i
    Responder = r
    None = None
    KeepsRootKey = FALSE
    MaxSkip = 2
    MaxSessions = 1
    MaxAnswers = 1
    MaxMessages = 1
SPECIFICATION Spec
INVARIANTS
    InOrderMessagesOpen
CHECK_DEADLOCK FALSE
