SPECIFICATION Spec
CONSTANTS
    MaxApp = 1
    Acceptors = {}
    Attempts = {p1}
    MaxRequests = 1
    Backlog = 1
    Cleaning = FALSE
INVARIANTS
    RemoveFindsQueued
CHECK_DEADLOCK FALSE
