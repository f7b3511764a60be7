SPECIFICATION LegalSpec
CONSTANTS
  empty = empty
  exact = exact
  long = long
  h1 = h1
  Values = {empty}
  RlpLength <- MCLengthsEmpty
  Hashes = {h1}
  EmptyBytes = empty
  Keys <- MCKeysAll
  MaxEntries = 3
INVARIANTS ChildHashesAreHashes
CHECK_DEADLOCK FALSE
