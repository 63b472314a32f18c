SPECIFICATION CallbackLiveSpec
CONSTANTS
  MaxSends = 3
  MaxMishaps = 2
INVARIANT TurnIsHeld
PROPERTIES
  ReviewIsKept
  CallsEnd
CHECK_DEADLOCK FALSE
