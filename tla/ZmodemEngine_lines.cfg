SPECIFICATION ExchangeFairSpec
CONSTANTS
  Sizes <- SomeFiles
  MaxRetries = 3
  EndRetries = 2
  EndPokes = 1
  MaxWrong = 3
  MaxErrors = 4
  MaxFaults = 4
  Lines <- AllLines
INVARIANTS WholeFile
PROPERTIES DeliverySpec ExchangeEnds
CHECK_DEADLOCK FALSE
