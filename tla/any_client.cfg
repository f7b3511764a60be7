SPECIFICATION Spec
CONSTANTS
  empty = empty
  exact = exact
  long = long
  h1 = h1
  Values = {empty}
  RlpLength <- MCLengthsEmpty
  Hashes = {h1}
  EmptyBytes = empty
  Keys <- MCKeysAll
  MaxEntries = 3
INVARIANTS TypeOK OnlyClientErrorsAbort ContractEnforced MasksWithinGroups StackCoversGroups BranchesInOrder
PROPERTIES LoopShrinks
CHECK_DEADLOCK FALSE
