SPECIFICATION Spec
CONSTANTS
    Stream <- TwoFlights
    Bounds <- SixMessages
    FlightEnds <- AfterFourAndSix
    Setups <- BreakAndCut
INVARIANTS
    ContinuesInOrder
CHECK_DEADLOCK FALSE
