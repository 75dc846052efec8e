CONSTANTS
  session = session
  emitter = emitter
  Thread = {session, emitter}
  B = 12
  MaxSends = 3
  SMALL_STREAM = 9
  MEDIUM_STREAM = 10
  BIG_STREAM = 11
  SMALL_OFFSET = 2
  MEDIUM_OFFSET = 4
  BIG_OFFSET = 10
  BINARY = 8
  WEBSOCK_SEND_BUF_LEN = 155
  Message <- TestMessages
SPECIFICATION SSSpec
INVARIANTS
  PeerUnderstands
  OverlapLeavesNothing

SYMMETRY Threads
