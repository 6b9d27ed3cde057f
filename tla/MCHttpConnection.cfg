CONSTANTS
    None = None
    Modes <- GentleModes
    Kinds = {"plain", "bad", "bad_query", "no_host", "no_fields", "undecodable"}
    Bodies = {0, 1, 2, 3}
    BUFFER_SIZE = 6
    MaxRequests = 2
SPECIFICATION Spec
CHECK_DEADLOCK FALSE
INVARIANTS
    TypeOK
    AnswersMatch
PROPERTIES
    ImplementsRequestReply
    CompleteRequestsAreAnswered
    AnsweredOrClosed
