\* Two connections: one is served while the other waits.
SPECIFICATION FairSpec
CONSTANTS
    Conn = {c1, c2}
    NoConn = NoConn
    Script <- MCScript
INVARIANTS
    AnsweredInOrder
    OnlyWholeRequests
    SessionOutlivesUse
PROPERTIES
    SessionOutlivesConnection
    EveryRequestAnswered
    StopReturns
