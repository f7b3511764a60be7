SPECIFICATION Spec
CONSTANTS
  Keys <- MCKeys
  Queries <- MCQueries
  MaxKeys = 3
INVARIANTS NextMarkedIsNext
