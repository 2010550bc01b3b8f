SPECIFICATION Spec
CONSTANTS
  Keys <- MCKeys
  Filters <- MCFilters
  Match <- MCMatch
  TypedHere = {"ty"}
  Pattern <- MCPattern
  Pages <- MCPages
  BatchTarget = 3
  MaxPages = 2
  ReqCap = 2
  UpdCap = 1
  Unfiltered = "all"
  None = None
INVARIANT CompleteIsWholeKeyspace
