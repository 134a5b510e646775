CONSTANTS
    KeyId = {k1}
    Caller = {c1, c2}
    Data = {s, l}
    Long = {l}
    MaxStores = 2
    MaxRestarts = 0
SPECIFICATION Spec
INVARIANT RoundTrip
CHECK_DEADLOCK FALSE
