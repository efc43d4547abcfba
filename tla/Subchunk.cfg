SPECIFICATION ScanSpec
CONSTANTS
    MaxScans = 1
    Side = 2
    WordBits = 8
    BitsPerBlock = {3}
INVARIANT ListingIsExact
CHECK_DEADLOCK FALSE
