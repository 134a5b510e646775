CONSTANTS
    Voter = {v1}
    Secret = {s1, s2}
    Question = {q1}
    First = q1
    Candidates = 2
    MessageSpace = 4
    Noise = {0}
    MaxDelegations = 0
    NoResult = NoResult
SPECIFICATION Spec
INVARIANT TallyRecovered
CHECK_DEADLOCK FALSE
