SPECIFICATION ObservedSpec
CONSTANTS
  Workers = {w1, w2}
  Handlers = {h1}
  Items = {1, 2}
  Url <- SameFile
  Priority <- SecondUrgent
  Cellular = {1}
  MaxRetry = 1
  NoItem = NoItem
INVARIANTS
  TypeOK
  OneHolder
  CancelHolds
PROPERTIES
  JobsKept
SYMMETRY WorkersAlike
