SPECIFICATION FairSpec
CONSTANTS
  MailboxSize = 1
  Sizes = {0, 2}
  MaxMessages = 2
  MaxStreams = 2
  MaxFaults = 2
INVARIANTS TypeOK WireInOrder EndIsReported
PROPERTIES StreamEnds DeadConnectionCloses
