SPECIFICATION ProcSpec
CONSTANTS
  Emoji = Emoji
  Cases <- MCCases
CHECK_DEADLOCK FALSE
INVARIANTS DedupMatchesReference UnselectedUntouched
