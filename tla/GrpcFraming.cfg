SPECIFICATION FairSpec
CONSTANTS
  Cont = 2
  Tag = 2
  MaxFrame = 10
  Messages <- MCMessages
  MaxMessages = 2
  MaxChunk = 8
CHECK_DEADLOCK FALSE
INVARIANTS TypeOK Reassembled NothingHeldBack
PROPERTY ReadToTheEnd
