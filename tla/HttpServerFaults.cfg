SPECIFICATION Spec
CONSTANTS
  HttpCount = 1
  WsCount = 1
  ClientsMax = 1
  Fds = {f1, f2, f3}
  NoFd = NoFd
  Env = {"early", "epipe", "closing", "close"}
SYMMETRY FdSymmetry
INVARIANTS
  TypeOK
  OneOwner
  NobodySleepsOnWork
  FaultHasCause
PROPERTIES
  LockedTableIsStable
  LostOnlyByRefusal
