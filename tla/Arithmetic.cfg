CONSTANTS
  MaxDuration = 1440
  RangeStart = 1440
  RangeEnd = 2880
  MaxRequests = 2
  History <- MCHistory
  Profiles <- MCProfiles
  Cases <- MCCases
SPECIFICATION AllSpec
INVARIANTS SegmentsLegal StoredAsComputed MatchesReference
PROPERTIES SplitEnds OneBreakSettles
CHECK_DEADLOCK FALSE
