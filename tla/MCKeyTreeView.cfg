SPECIFICATION TreeSpec
CONSTANTS
  Universe <- MCKeys
  BatchSize = 1
  ExpandLimit = 5
INVARIANT TreeTypeOK
INVARIANT RowsAreOfTheTree
INVARIANT EveryKeyHasItsRow
PROPERTY BatchKeepsCursor
