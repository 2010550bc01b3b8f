SPECIFICATION FairSpec
CONSTANTS
  Streams = {s}
  MaxEntries = 2
  Unreadable = {}
  Count = 2
  MaxFailures = 2
  UpdCap = 1
  Latest = Latest
  None = None
CHECK_DEADLOCK FALSE
PROPERTY LiveMissesNothing
