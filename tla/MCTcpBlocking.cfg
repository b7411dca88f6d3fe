\* TCP handle, blocking requests (timeout 0), a slave that answers every request
\* until the peer may hang up; the eight primitives the device drivers call.
\* The application stops after MaxCalls calls, so the model may stop there.
CONSTANTS
    MaxPduLength = 254
    TidBits <- MCTidBits
    Transport = "tcp"
    Timeouts = {0, 1}
    MaxCalls = 2
    Ops <- MCLayoutOps
    Addrs = {0, 1}
    SlaveId = 1
    SlaveDrops = FALSE
    SlowAnswers = TRUE
    AnswersBeatTimeout = TRUE
    PeerHangsUp = TRUE
    JunkBytes <- MCJunkBytes
    InitCounter <- MCInitCounter
SPECIFICATION Spec
CHECK_DEADLOCK FALSE
INVARIANT TypeOK
INVARIANT ResultMatchesRequest
PROPERTY CallReturns
