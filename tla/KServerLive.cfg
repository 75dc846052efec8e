CONSTANTS
  tcp = tcp
  websock = websock
  Kind = {tcp, websock}
  worker_connections <- BothKinds
  Fd = {f1}
  NoFd = NoFd
  LogStalls = TRUE
  Thread = {t1}
  ChannelArg = {1}
SPECIFICATION KSSpec
PROPERTIES
  ShutdownCompletes
