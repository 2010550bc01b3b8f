SPECIFICATION FairSpec
CONSTANTS
  Streams = {s, t}
  MaxEntries = 4
  Unreadable = {2}
  Count = 2
  MaxFailures = 3
  UpdCap = 1
  Latest = Latest
  None = None
INVARIANT TypeOK
INVARIANT ExactlyOnceInOrder
CHECK_DEADLOCK FALSE
PROPERTY StatusIsTold
PROPERTY BurstIsPickedUp
