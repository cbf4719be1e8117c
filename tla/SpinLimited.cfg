SPECIFICATION FairSpin
CONSTANTS
  Count = 4
  Parallel = 2
  Invalid = {2}
INVARIANTS InFlightBounded ReturnsEveryError
PROPERTY CallReturns
CHECK_DEADLOCK FALSE
