SPECIFICATION Spec
CONSTANTS
  Coroutines = {"co1", "co2"}
  Starts <- MCStarts
  MaxCCalls = 16
  MaxStack = 32
  ErrorStack = 64
INVARIANTS CallsConsistent DepthBounded
PROPERTIES ImplementsControl
