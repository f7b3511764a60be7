SPECIFICATION FairVSpec
CONSTANTS
  Values <- MCValues
  RlpLength <- MCRlpLength
  Hashes = {}
  EmptyBytes <- MCEmptyBytes
  Keys <- MCKeys
  MaxEntries = 130
  Vectors <- MCVectors
CHECK_DEADLOCK FALSE
INVARIANTS RootOfVector IndexOrderNeverAborts
PROPERTIES RootIsReturned
