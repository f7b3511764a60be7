SPECIFICATION Spec
CONSTANTS
  Threads  = {t1, t2}
  Messages <- MCMessages
  Texts    <- MCTexts
  Requests <- MCRequests
  Garbage  = {0, 129}
  MaxItems = 2
  MaxReads = 2
SYMMETRY Symmetry
CHECK_DEADLOCK FALSE
INVARIANTS TypeOK EncodedIsRlp LengthsAgree TextIsRead VerdictOnCString
PROPERTIES ImplementsItemStream AcceptedIsCanonical ChunksAppendedWhole
