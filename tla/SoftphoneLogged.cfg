SPECIFICATION SoftphoneSpec
CONSTANTS
  MaxCalls = 1
  MaxFaults = 0
  SlowStatus = FALSE
INVARIANTS
  CampaignCallsAreLogged
CHECK_DEADLOCK FALSE
