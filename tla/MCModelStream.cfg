CONSTANTS
  MaxStreams = 2
  MaxWatched = 1
  MaxOutput = 2
  MaxChunks = 3
  MaxFragments = 2
  MaxFaults = 2
  PageLimit = 3
  Subscribers = {w1}
SPECIFICATION PartSpec
CHECK_DEADLOCK FALSE
INVARIANTS
  JournalInv
  InvocationSettled
PROPERTIES
  WatchedEnds
