SPECIFICATION FairSpec
CONSTANTS
  Users = {u1, u2}
  Modes <- AllModes
  MaxFunctions = 4
  MaxRestarts = 1
INVARIANTS  TagsLeadOn FleetsBounded
 
CHECK_DEADLOCK FALSE
