SPECIFICATION DetailSpec
SYMMETRY MCSymmetry
CONSTRAINT OneFailingPart
CONSTANTS
  SpeculativeKinds <- MCKinds
  MaxWrites = 2
  MaxLost = 1
  MaxRefused = 1
  g = g
  h = h
  GroupNames = {g, h}
  MaxGroups = 1
  MaxGroupChanges = 2
  MaxMissed = 1
INVARIANT DetailTypeOK
INVARIANT ShownWasHeld
INVARIANT MissingIsExplained
INVARIANT OneFailureOneField
INVARIANT ErrorIsOfTheValue
INVARIANT BoundedReadsOnly
INVARIANT GroupsAreTheStreams
