SPECIFICATION Spec
CONSTANTS
  QueueDepth = 2
  RingSlots = 2
  AggrMax = 2
  ChannelCounts = {8}
  ReadLens = {36, 72}
  CalCounts = {0, 1}
  StartStates <- AnyState
  MaxFrames = 5
INVARIANTS
  TypeOK
  OutputInOrder
  BlocksFit
