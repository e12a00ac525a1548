SPECIFICATION Spec
CONSTANTS
  Block = 2
  Lines <- MCLines
  Uris = {"a", "b"}
  HttpCallbacks = {"c1"}
  WsCallbacks = {"w"}
  None = None
  MethodSets <- MCMethodSets
  MaxEndpoints = 2
  Requests <- MCRequests
  HeaderSets <- MCHeaderSets
  CallbackHeaders <- MCCallbackHeaders
  ReadSize = 5
  Guesses = {0, 1, 3}
  Longest = 3
  MaxCalls = 2
  MaxSetters = 3
  MaxEvents = 3
INVARIANTS
  TypeOK
  MemoryIsSound
  AnsweredOnce
  DispatchIsRight
  ToldIsDone
CHECK_DEADLOCK FALSE
