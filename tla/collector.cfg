SPECIFICATION FailureSpec
CONSTANTS
  empty = empty
  exact = exact
  long = long
  h1 = h1
  Values = {long}
  RlpLength <- MCLengthsLong
  Hashes = {h1}
  EmptyBytes = long
  Keys <- MCKeysShapes
  MaxEntries = 4
INVARIANTS CollectedIsDbTrie CollectedBottomUp RebuildsFromCollected
