SPECIFICATION FairSpec
CONSTANTS
  QueueDepth = 2
  RingSlots = 2
  AggrMax = 2
  ChannelCounts = {3, 8}
  ReadLens = {36, 72}
  CalCounts = {0, 1}
  StartStates = {"IDLE"}
  MaxFrames = 4
INVARIANTS
  LossIsReported
  ByteCountersExact
  StopAndCloseDrains
  AcquisitionHasSink
PROPERTIES
  ImplementsSession
  StopReachesIdle
  BlocksLeaveQueue
