SPECIFICATION Spec
CONSTANTS
  h1 = h1
  Handles <- MCHandles
  Styles = {"retained", "volumes", "fresh", "decoded"}
  Oversized = {3}
  MaxChanges = 2
  MaxCalls = 5
INVARIANTS TypeOK OkReadsOpenedSource IdsAreSessionScoped
PROPERTY UnusableIsFinal
CHECK_DEADLOCK FALSE
