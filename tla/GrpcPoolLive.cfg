\* Who waits for a slot gets it, who dies leaves it.
CONSTANTS
    Relays = {r1, r2}
    Keys = {k1}
    NoKey = NoKey
    MaxSlots = 1
    MaxConns = 1
    MaxClock = 0
    IdleTimeouts = {1}
SPECIFICATION FairSpec
PROPERTIES DeadIsCleared LockServed
