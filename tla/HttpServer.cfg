SPECIFICATION Spec
CONSTANTS
  Emoji = "emoji"
  Generations <- MCGenerations
  Escaped <- MCEscaped
  Requests <- MCRequests
  BadHosts = {"", "a b"}
  Every = Every
CHECK_DEADLOCK FALSE
INVARIANTS NamedOutputServed OneGeneration OnlyWhatIsGranted LinksParseBack
