CONSTANTS
    Name = {"a", "b"}
    AsCA = {TRUE}
    PathLength = {}
    HasKey = {TRUE}
    Signed = {FALSE}
    Start = {0}
    Days = {1}
    MaxTime = 0
    MaxCerts = 2
    MaxMoves = 1
SPECIFICATION Spec
INVARIANT RootInTrustStore
CHECK_DEADLOCK FALSE
