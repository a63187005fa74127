CONSTANTS
  Mids = 16
  FirstId <- MCFirstId
  MaxRequests = 2
  MaxFaults = 1
  Plans <- MCPlans
SPECIFICATION FairSpec
CHECK_DEADLOCK FALSE
INVARIANTS ExchangeInv NoLostUpdate
PROPERTIES Fresh ImplementsService ExchangesEnd
