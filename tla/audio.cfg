SPECIFICATION AsSpec
CONSTANTS
  MaxSize = 2
  SeqNo <- Frames
  Streams = 2
  QueueSize = 2
CHECK_DEADLOCK FALSE
INVARIANTS  StallEnds RelayKeepsNoLate
PROPERTIES PlayedInOrder HeldFramesNotSkipped
