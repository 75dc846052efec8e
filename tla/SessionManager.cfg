CONSTANTS
  Fd = {f1, f2, f3, f4}
  ChannelArg = {3, 65536}
SYMMETRY FdSymmetry
SPECIFICATION SMSpec
INVARIANTS
  IdsPartitioned
  SessionsCounted
  SocketsOwned
PROPERTIES
  OthersKeepSubscription
  IdsRefined
