\* The slave simulator answering file requests, among them pairs of
\* sub-requests whose first or second file does not exist.
CONSTANTS
    MaxPduLength = 254
    TidBits = 16
    SlaveId = 17
    RecordCount = 2
    JunkBytes = {0, 170}
    MaxRequests = 2
    OutBytes = 24
    Requests <- MCRequests
SPECIFICATION Spec
PROPERTY AnswersFollowProtocol
CHECK_DEADLOCK FALSE
