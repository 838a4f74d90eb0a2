SPECIFICATION Spec
CONSTANTS
    Kinds = {"udp", "ws"}
    Messages <- AllMessages
    MaxMessages = 3
    MaxReadBufLen = 3
    MaxUDPBuf = 8
    Limits = {0, 2, 6}
CHECK_DEADLOCK FALSE
INVARIANTS
    DeliveredInOrder
    LegalDelivered
    NoTruncatedMessage
    ErrorsAreReal
