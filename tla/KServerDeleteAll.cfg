CONSTANTS
  tcp = tcp
  websock = websock
  Kind = {tcp, websock}
  worker_connections <- TwoTcpWorkers
  Fd = {f1, f2}
  NoFd = NoFd
  LogStalls = FALSE
  Thread = {t1, t2}
  ChannelArg = {1}
SYMMETRY KSSymmetry
SPECIFICATION KSSpec
INVARIANT DeleteAllEmptiesPool
