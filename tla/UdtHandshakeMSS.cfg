SPECIFICATION HandshakeSpec
CONSTANTS
    HsModes = {"rendezvous"}
    MSSs = {1, 2}
    WindowSizes = {1, 3}
    MaxSetOpts = 2
    MaxAttempts = 2
    MixedMSS = {"rendezvous"}
    FcBelowBuffer = FALSE
INVARIANT SmallerMSS
CHECK_DEADLOCK FALSE
