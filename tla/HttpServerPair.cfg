SPECIFICATION Spec
CONSTANTS
  HttpCount = 2
  WsCount = 1
  ClientsMax = 2
  Fds = {f1, f2}
  NoFd = NoFd
  Env = {"closing"}
SYMMETRY FdSymmetry
INVARIANTS
  OneOwner
  ChosenThreadHasRoom
PROPERTIES
  SpeaksItsProtocol
  ImplementsService
