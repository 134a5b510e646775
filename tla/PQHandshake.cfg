CONSTANTS
    Object = {1, 2}
    Suite = {"A", "B"}
    Strong = {"A"}
    Lifetime = 1
    MaxSecrets = 2
    MaxTickets = 1
    MaxRotations = 1
    MaxTime = 2
SPECIFICATION Spec
INVARIANT SecretIsTheSessions
CHECK_DEADLOCK FALSE
