\* TCP handle, requests with a timeout; the peer may hang up, after which the
\* epoll thread marks the handle Disconnected.  Two calls.
\* The application stops after MaxCalls calls, so the model may stop there.
CONSTANTS
    MaxPduLength = 254
    TidBits <- MCTidBits
    Transport = "tcp"
    Timeouts = {1}
    MaxCalls = 2
    Ops = {"ReadCoils"}
    Addrs = {0}
    SlaveId = 1
    SlaveDrops = FALSE
    SlowAnswers = TRUE
    AnswersBeatTimeout = FALSE
    PeerHangsUp = TRUE
    JunkBytes <- MCJunkBytes
    InitCounter <- MCInitCounter
SPECIFICATION Spec
CHECK_DEADLOCK FALSE
PROPERTY DisconnectedRefusesCalls
