CONSTANTS
  HEADER_SIZE = 2
  SMALL_HEADER = 2
  MEDIUM_HEADER = 3
  BIG_HEADER = 4
  KSERVER_READ_STR_LEN = 7
  WEBSOCK_READ_STR_LEN = 14
  Slack = 5
  HttpSize = 2
  Scripts <- TestScripts
SPECIFICATION WSSpec
INVARIANTS
  BufferBounded
  ExecutedAsSent
  RefusedForCause
PROPERTIES
  
  SessionEnds
