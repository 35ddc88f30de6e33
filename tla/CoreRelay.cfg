SPECIFICATION FairSpec
CONSTANTS
  Auth = 2
  MaxFrame = 2
  MaxReq = 6
  MaxResp = 2
  Pipe = 1
CHECK_DEADLOCK FALSE
INVARIANTS UploadIntact UploadEndsComplete ResponseComplete NothingLeftRunning
PROPERTIES HalfClosedGetsResponse HandlerReturns
