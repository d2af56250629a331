SPECIFICATION FairSpec
CONSTANTS
  Callers = {"controller", "sender"}
  Ops = {1, 2}
  NoOp = 0
  Ring = 1
  MaxCalls = 2
INVARIANTS LossNeedsTimeouts LagBounded
 
CHECK_DEADLOCK FALSE
