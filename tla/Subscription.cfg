SPECIFICATION Spec
CONSTANTS
  Emoji = Emoji
  NoKey = NoKey
  Refused = Refused
  Sources <- MCSources
  Feeds <- MCFeeds
  Steps <- MCSteps
  Strategy = "rename"
  MaxReloads = 4
  MaxCrashes = 1
CHECK_DEADLOCK FALSE
INVARIANTS FallbackComplete EveryNodeReachable
