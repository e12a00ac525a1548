SPECIFICATION Spec
CONSTANTS
  Headers <- MCHeaders
  ControlMax = 1
  Buffer = 4
  Wrap = 10
INVARIANTS
  CallbackGetsNoControlFrame
