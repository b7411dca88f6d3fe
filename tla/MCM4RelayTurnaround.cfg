\* The M4 relay with a slave that may start its answer before the M4 has
\* switched the half-duplex pin back to receive, so that leading bytes of
\* that answer are lost (once per run).
CONSTANTS
    MaxPduLength = 254
    TidBits = 16
    RequestPdus <- MCRequestPdus
    Answers <- MCAnswersSafe
    MaxRequests = 3
    CtrBits = 9
    InitCtr = {0, 500}
    MsgBytes = 48
    FastTurnaround = TRUE
SPECIFICATION Spec
PROPERTY RelayResynchronises
