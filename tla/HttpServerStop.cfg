\* One connection at most: what counts is that none comes after the stop.
SPECIFICATION FairSpec
CONSTANTS
    Conn = {c1}
    NoConn = NoConn
    Script <- MCScript
PROPERTIES
    StopReturnsUnaided
