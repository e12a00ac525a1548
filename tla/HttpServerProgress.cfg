SPECIFICATION FairSpec
CONSTANTS
  HttpCount = 1
  WsCount = 1
  ClientsMax = 2
  Fds = {f1, f2}
  NoFd = NoFd
  Env = {"slow", "closing"}
PROPERTIES
  ListenerReturns
  WatchedMessagesRead
