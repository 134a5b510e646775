CONSTANTS
    Name = {a, b, c}
    AsCA = {TRUE}
    PathLength = {0}
    HasKey = {TRUE, FALSE}
    Signed = {TRUE}
    Start = {0}
    Days = {0}
    MaxCerts = 2
    MaxMoves = 3
    MaxTime = 1
    Logged = {1, 2}
    MaxLog = 8
    Interval = {2}
    Overlap = {1, 3}
    MaxLineKeys = 3
    MaxSlots = 2
    MaxSlotKeys = 3
    MaxUses = 1
    MaxEntries = 7
    Preferences <- MCPreferences
    Supported = {{"ML-DSA-44"}, {"ML-DSA-87", "ML-DSA-44"}, {"ML-DSA-65"}}
    Deadline = {0, 2}
    MaxHours = 3
    Client1 = Client1
    Client2 = Client2
    Server1 = Server1
    Server2 = Server2
    SharedKey = SharedKey
    NoPsk = NoPsk
    MaxAuth = 2
    MaxTranscript = 5
    MaxRecord = 2
    MaxUpdate = 1
SPECIFICATION MCSpec
SYMMETRY Symmetry
CONSTRAINT MCBounds
INVARIANT ApplicationKeysAgree
CHECK_DEADLOCK FALSE
