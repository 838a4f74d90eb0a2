SPECIFICATION Spec
CONSTANTS
    Streams <- ShortStreams
    MaxRead = 4
    Limits = {0, 2, 3}
CHECK_DEADLOCK FALSE
INVARIANTS
    DeliveredInOrder
    NothingHeldBack
    LimitIsPerPackage
    ErrorsAreReal
