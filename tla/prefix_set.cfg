SPECIFICATION Spec
CONSTANTS
  Keys <- MCKeys
  Queries <- MCQueries
  MaxKeys = 3
INVARIANTS TypeOK CursorInRange SortedIsSorted NextMarkedIsFirst
PROPERTIES ImplementsPrefixClosedSet
