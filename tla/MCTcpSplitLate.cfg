\* TCP handle, requests with a timeout; the slave may leave requests unanswered
\* and the peer may hang up.  Late answers meet later requests.
\* The counter starts two below its wrap, so the third request's id is 0.
\* The application stops after MaxCalls calls, so the model may stop there.
CONSTANTS
    MaxPduLength = 254
    TidBits <- MCTidBits
    Transport = "tcp"
    Timeouts = {1}
    MaxCalls = 3
    Ops = {"ReadCoils"}
    Addrs = {0}
    SlaveId = 1
    SlaveDrops = TRUE
    SlowAnswers = TRUE
    AnswersBeatTimeout = FALSE
    PeerHangsUp = TRUE
    JunkBytes <- MCJunkBytes
    InitCounter <- MCCounterNearWrap
SPECIFICATION Spec
CHECK_DEADLOCK FALSE
INVARIANT NoFalseFutureAbort
