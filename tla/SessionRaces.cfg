SPECIFICATION Spec
CONSTANTS
    Users = {u}
    Devices = {d}
    SessionIds = {i1, i2}
    Handlers = {h1, h2}
    Lifetime = 2
    MaxTime = 2
    MaxCalls = 4
    MaxCrashes = 1
SYMMETRY Symmetry
CHECK_DEADLOCK FALSE
INVARIANTS AcceptedIsListed ReusableIsUsable LoggedOutIsRefused
PROPERTY SessionsLive
