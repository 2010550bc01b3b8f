SPECIFICATION FairSpec
CONSTANTS
  QueueLists <- MCQueueLists
  IdLists <- MCIdLists
  NumStates = 2
  ReqCap = 1
  UpdCap = 1
  None = None
INVARIANT QueuesTypeOK
INVARIANT SettledPanesFit
INVARIANT PageOfShownState
PROPERTY LoadsEnd
