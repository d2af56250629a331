SPECIFICATION Spec
CONSTANTS
  PacketLen = 2
  HeaderLen = 2
  Totals = {2, 9}
  MaxChunks = 2
  MaxTurns = 3
INVARIANT
  PollsStayOut
CHECK_DEADLOCK FALSE
