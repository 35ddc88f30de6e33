\* Relays to two endpoints while reloads come and go.
CONSTANTS
    Relays = {r1, r2}
    Keys = {k1, k2}
    NoKey = NoKey
    MaxSlots = 2
    MaxConns = 2
    MaxClock = 0
    IdleTimeouts = {0}
SPECIFICATION Spec
SYMMETRY RelaySymmetry
INVARIANTS RightEndpoint CachedHasDriver SnapshotCurrent SingleHandshake
PROPERTY DriverClearsOwn
