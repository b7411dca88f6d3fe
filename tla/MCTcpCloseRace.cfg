\* TCP handle closed by the application's CloseHandlers after its calls,
\* with the epoll thread still running until ModbusExit; the peer may hang up.
CONSTANTS
    MaxPduLength = 254
    TidBits <- MCTidBits
    Transport = "tcp"
    Timeouts = {1}
    MaxCalls = 1
    Ops = {"ReadCoils"}
    Addrs = {0}
    SlaveId = 1
    SlaveDrops = FALSE
    SlowAnswers = TRUE
    AnswersBeatTimeout = FALSE
    PeerHangsUp = TRUE
    JunkBytes <- MCJunkBytes
    InitCounter <- MCInitCounter
SPECIFICATION Spec
CHECK_DEADLOCK FALSE
INVARIANT NoDanglingHandle
