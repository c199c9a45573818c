SPECIFICATION Spec
CONSTANTS
  MaxDepth = 8
  TextLen = 6
  StrLen = 3
  Texts <- MCTexts
  Values <- MCValues
INVARIANTS
  NeverPanics
  EventsNest
  RoundTrip
CHECK_DEADLOCK FALSE
