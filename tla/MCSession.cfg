SPECIFICATION Spec
CONSTANTS
  Panes = {"cluster"}
  Instances <- MCInstances
  MaxDetectPages = 2
  MaxQueues = 3
  Sampled = 2
  ReqCap = 2
  UpdCap = 1
  MaxLost = 1
INVARIANT TypeOK
PROPERTY PanesKeepTheirPromise
INVARIANT PaneSaysWhy
INVARIANT DetectionIsRight
INVARIANT NothingOutlives
CHECK_DEADLOCK FALSE
