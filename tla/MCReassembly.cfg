SPECIFICATION Spec
CONSTANTS
    Stream <- TwoFlights
    Bounds <- SixMessages
    FlightEnds <- AfterFourAndSix
    Setups <- OneAtATime
INVARIANTS
    NothingLost
PROPERTIES
    AllDelivered
CHECK_DEADLOCK FALSE
