SPECIFICATION TableSpec
CONSTANTS
  MaxInt = 2
  MaxSize = 5
  Page = 2
  Queues <- MCQueues
  States <- MCStates
  ListBacked <- MCListBacked
  Keys <- MCKeys
  Kinds = {"hash", "list"}
  MaxTyped = 2
  Probes <- MCProbes
  Channels <- MCChannels
  ChannelLimit = 1
  LogLimit = 1
  ChunkSize = 4
  JobIds <- MCJobIds
  JobHashes <- MCJobHashes
  MaxChanges = 1
  MaxLost = 1
  Seconds <- MCSeconds
  WindowSecs = 3
  MaxOffered = 2
  Widths <- MCWidths
  MinName = 1
  MaxName = 3
  StatusW = 2
  Col = 3
  RateW = 2
  RequiredCols = 2
  OptionalCols = 3
  SparkMin = 1
  SparkMax = 3
CONSTRAINT Apart
CHECK_DEADLOCK FALSE
INVARIANT TableTypeOK
INVARIANT CellsAreTheirOwn
INVARIANT PageIsThePage
INVARIANT GraphIsHistory
INVARIANT TableFits
