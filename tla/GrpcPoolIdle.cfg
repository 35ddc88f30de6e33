\* Idle pruning beside relays and reloads.
CONSTANTS
    Relays = {r1, r2}
    Keys = {k1}
    NoKey = NoKey
    MaxSlots = 1
    MaxConns = 1
    MaxClock = 2
    IdleTimeouts = {0, 1}
SPECIFICATION Spec
SYMMETRY RelaySymmetry
PROPERTY IdleClearsOnlyIdle
