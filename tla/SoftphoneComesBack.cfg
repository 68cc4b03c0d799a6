SPECIFICATION SoftphoneSpec
CONSTANTS
  MaxCalls = 0
  MaxFaults = 1
  SlowStatus = TRUE
PROPERTIES
  ComesBack
CHECK_DEADLOCK FALSE
