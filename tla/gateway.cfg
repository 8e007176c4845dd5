CONSTANTS
  RbufSize = 2
  NumMbufs = 2
  FrameLen = 2
  MaxInputs = 4
  MaxUnknown = 1
SPECIFICATION FairSpec
CHECK_DEADLOCK FALSE
INVARIANT TypeOK
INVARIANT CharsAnnounced
INVARIANT GarbageOnlyAfterFull
INVARIANT NobodySleeps
PROPERTY ReadInOrder
PROPERTY NothingLeftOut
PROPERTY EverythingSent
PROPERTY BuffersReturn
