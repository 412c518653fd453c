SPECIFICATION Spec
CHECK_DEADLOCK FALSE
CONSTANTS
  Infos = 8
  Direct = {0, 1, 2, 3}
  Width <- MCWidth
  Word = 4096
  Simple <- MCSimple
  BigEndian <- MCBigEndian
  Fixed = 3
  FlagsAt = 2
  Attested = 5
  IdBytes = 1
  Curve <- MCCurve
  Room = 300
  Blobs <- MCBlobs
  More <- MCMore
  Items <- MCItemsOf
  Rows <- MCRowsOf
INVARIANTS ReadsTheGrammar PanicsExplained DepthWithinInput KeyFromPairs DataLaidOut
PROPERTIES WorkBounded NothingAfterCounts
