SPECIFICATION LiveSpec
CONSTANTS
    Streams <- MCStreams
    MaxRecord = 1
    Overhead = 1
    ReadSizes = {0, 2}
    WriteSizes = {2}
    MaxData = 2
INVARIANTS TypeOK InOrder HonestPeerAccepted
PROPERTIES BufferedGuarantee ReadReturnsData ImplementsByteStream EverythingDelivered EverythingTransmitted ClosedDrains
