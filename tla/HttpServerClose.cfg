SPECIFICATION Spec
CONSTANTS
  HttpCount = 1
  WsCount = 1
  ClientsMax = 2
  Fds = {f1, f2}
  NoFd = NoFd
  Env = {"close"}
PROPERTIES
  ClosedAcceptsNothing
