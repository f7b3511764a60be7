SPECIFICATION LegalSpec
CONSTANTS
  empty = empty
  exact = exact
  long = long
  h1 = h1
  Values = {empty, exact}
  RlpLength <- MCLengthsEmptyExact
  Hashes = {h1}
  EmptyBytes = empty
  Keys <- MCKeysLeaves
  MaxEntries = 4
INVARIANTS ContractNeverAborts OpenTrie
PROPERTIES ImplementsMerkleTrie ServesMerkleTrie
CHECK_DEADLOCK FALSE
