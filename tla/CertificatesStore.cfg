CONSTANTS
    Name = {"a", "b"}
    AsCA = {TRUE}
    PathLength = {}
    HasKey = {TRUE}
    Signed = {FALSE}
    Start = {0}
    Days = {1}
    MaxTime = 0
    MaxCerts = 2
    MaxMoves = 3
SPECIFICATION Spec
INVARIANT FindsWhatItHolds
CHECK_DEADLOCK FALSE
