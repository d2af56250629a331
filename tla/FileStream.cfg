SPECIFICATION Spec
CONSTANTS
  Files = {"a", "b"}
  Blocks = 2
  MaxCommands = 3
INVARIANTS StreamIsFile ShortByFailure PositionsAgree
CHECK_DEADLOCK FALSE
