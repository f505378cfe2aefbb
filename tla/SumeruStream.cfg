\* Up to six events.
CONSTANTS
    MaxLog = 6
SPECIFICATION FairSpec
INVARIANTS
    NotFoundMeansUnheard
PROPERTIES
    DeliverySpec
    SendReturns
CHECK_DEADLOCK FALSE
