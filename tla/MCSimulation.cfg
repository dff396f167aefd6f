SPECIFICATION Spec
CONSTANTS
  Configurations <- AllConfigurations
  Duration = 9
  UserEvery = 2
  ProxyEvery = 20
  MaxCapacity = 2
  FlagBelow <- Threshold
  ProxyPlaces = {2, 4}
  ClientPlaces = {0, 1}
  Nobody = Nobody
INVARIANTS PlacesCounted ChartAgrees NobodyLeftOut ResultsApart
CHECK_DEADLOCK FALSE
