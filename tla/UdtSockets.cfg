SPECIFICATION FairSpec
CONSTANTS
    MaxApp = 1
    Acceptors = {a1}
    Attempts = {p1, p2}
    MaxRequests = 2
    Backlog = 1
    Cleaning = TRUE
INVARIANTS
    NoAcceptOnDeleted
    OneSocketPerAttempt
    ListedAreInMap
    
    NoneLeftInQueue
PROPERTIES
    WaiterIsServed
    
CHECK_DEADLOCK FALSE
