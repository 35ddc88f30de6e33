\* A relay dials in a slot that a reload has removed.
CONSTANTS
    Relays = {r1}
    Keys = {k1}
    NoKey = NoKey
    MaxSlots = 1
    MaxConns = 1
    MaxClock = 0
    IdleTimeouts = {0}
SPECIFICATION Spec
INVARIANT CachedIsReachable
