SPECIFICATION FairSpec
CONSTANTS
  j1 = j1
  j2 = j2
  None = None
  Jobs = {j1, j2}
  Window = 1
  MaxEvents <- Three
  MaxWire = 1
  MaxEpochs = 1
INVARIANT StreamsAreSound
PROPERTIES
  ProgressStands
  FollowedToTheEnd
CHECK_DEADLOCK FALSE
