CONSTANTS
  Kept = {"control"}
  Credit = 2
  MaxCalls = 3
SPECIFICATION Spec
INVARIANT FramesStayWhole
INVARIANT OkMeansSent
INVARIANT FailsOnce
INVARIANT WaitsEnd
CHECK_DEADLOCK FALSE
