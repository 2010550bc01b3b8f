SPECIFICATION Spec
CONSTANTS
  k1 = k1
  k2 = k2
  Nothing = Nothing
  Keys = {k1, k2}
  ReqCap = 2
  UpdCap = 1
  HasServerInfo = FALSE
INVARIANT LoadingIsLive
