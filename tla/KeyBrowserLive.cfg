SPECIFICATION FairSpec
CONSTANTS
  k1 = k1
  k2 = k2
  Nothing = Nothing
  Keys = {k1}
  ReqCap = 2
  UpdCap = 1
  HasServerInfo = FALSE
PROPERTY SpinnerStops
PROPERTY ReadEnds
PROPERTY SelectionFetched
