SPECIFICATION FairSpec
CONSTANTS
  Configs <- MCConfigs
  Missing = Missing
  Broken = Broken
  Capacity = 1
  MaxAttempts = 2
  MaxFetches = 2
  MaxQueue = 1
CHECK_DEADLOCK FALSE
INVARIANTS ListenerKept ServedIsAccepted Settled
PROPERTIES Publishes EditIsRead ProcessEnds RefetchHappens
