CONSTANTS
    Capture <- MCCapture
    DrawSize = {1, 32, 40}
    SeedBits = 512
    Margin = 128
    MinEntropyFloor = 20
    MaxDevices = 2
    MaxDraws = 3
    Symbol = {0, 1}
    RctCutoff = 4
    AptCutoff = 3
    Window = 3
    MaxSamples = 10
    Seed = {1, 2}
    MaxBlocks = 2
    MaxCalls = 4
    PoolSize = 5
    ByteBits = 2
    MaxLimit = 9
    MaxDeck = 4
    MaxTakes = 4
    FirstPrime = 7
    SecondPrime = 11
    Primes <- MCPrimes
    LatticeQ = 17
    CurveP = 19
    Asked <- MCAsked
    Squarings <- MCSquarings
    Walk = {0, 1, 3, 35, 70}
    Schedule <- MCSchedule
    Election = {1, 2}
    Candidate = {1, 2}
    Entropy <- MCEntropySource
    MaxRounds = 2
    MaxAdded = 2
    MaxCandidates = 2
    KeyId = {k1, k2}
    Caller = {c1, c2}
    Data = {s, l}
    Long = {l}
    MaxStores = 2
    MaxRestarts = 1
SPECIFICATION MCSpec
INVARIANT HonestWalksVerify
CHECK_DEADLOCK FALSE
