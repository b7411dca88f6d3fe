\* TCP handle, requests with a timeout, a slave that answers every request.
\* The application stops after MaxCalls calls, so the model may stop there.
CONSTANTS
    MaxPduLength = 254
    TidBits <- MCTidBits
    Transport = "tcp"
    Timeouts = {1}
    MaxCalls = 3
    Ops = {"ReadCoils", "WriteSingleCoil"}
    Addrs = {0, 1}
    SlaveId = 1
    SlaveDrops = FALSE
    SlowAnswers = TRUE
    AnswersBeatTimeout = FALSE
    PeerHangsUp = FALSE
    JunkBytes <- MCJunkBytes
    InitCounter <- MCInitCounter
SPECIFICATION Spec
CHECK_DEADLOCK FALSE
INVARIANT NoStrandedFrame
