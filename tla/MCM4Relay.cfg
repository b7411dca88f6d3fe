\* The M4 relay of the rtu transport with answers of 5, 6 and 15 bytes and requests of 8 and 17 bytes.
CONSTANTS
    MaxPduLength = 254
    TidBits = 16
    RequestPdus <- MCRequestPdus
    Answers <- MCAnswersSafe
    MaxRequests = 3
    CtrBits = 9
    InitCtr = {0, 500}
    MsgBytes = 48
    FastTurnaround = FALSE
SPECIFICATION Spec
PROPERTY RingImplementsQueue
PROPERTY TxRingImplementsQueue
INVARIANT NoTransmitInReceiveMode
INVARIANT RelayedInOrder
PROPERTY TransceiverReturnsToReceive
