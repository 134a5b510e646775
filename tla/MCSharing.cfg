CONSTANTS
    Prime = 5
    Generator = 2
    N = 4
    T = 2
    MaxRetries = 2
    Random = {0, 1}
    MaxEpochs = 2
    MaxRecoveries = 1
    Threshold = 2
    NumParties = 3
    MaxCeremonies = 2
    MaxRuns = 2
    MaxSessions = 1
    MaxNonces = 3
    MaxPartials = 2
    NumSigners = 2
    MaxArrays = 2
    MaxRefreshes = 1
    MaxNonce = 1
    MaxCombined = 1
    MaxRounds = 2
    Receiver = {1, 2}
    Payload = {"a", "b"}
    MaxSends = 2
    Name = {1, 2, 3}
    Protocol = {"spdz", "gmw"}
    MaxTriples = 1
    MPCParties = 2
    Modulus = 3
    SharedValue = {0, 2}
    Chance = {1}
    Lie = {0, 1}
    MaxShared = 3
    GarbledInputs = 2
    GarbledGates = 2
    Voter = {v1, v2}
    Nullifier = {n1, n2}
    Question = {q1, q2}
    First = q1
    Candidates = 2
    MessageSpace = 4
    Noise = {0, 300}
    MaxDelegations = 1
    NoResult = NoResult
SPECIFICATION MCSpec
INVARIANTS
    SecretsFound
    SigningSound
    GarblingRight
    ComputationsRight
    CheatingFound
    EveryBallotIncluded
    ResultsCountAllBallots
    SingleChoiceVerifies
PROPERTY
    RefreshesVerify
CHECK_DEADLOCK FALSE
