CONSTANTS
  NumThreads = 3
  MaxHeight = 5
  BlockLines = 2
  LineSize = 2
  HeaderSize = 2
  EntrySize = 2
  BlockHead = 2
SPECIFICATION Spec
INVARIANT TypeOK
INVARIANT NeverShared
INVARIANT RoundTrip
INVARIANT LoadsIfWhole
PROPERTY Terminates
CHECK_DEADLOCK FALSE
