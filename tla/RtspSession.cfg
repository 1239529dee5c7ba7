\* Three UDP sockets need three ports; SETUP may fail at each of them anyway.  No
\* symmetry, since liveness is checked.
SPECIFICATION FairSpec
CONSTANTS
    Port = {p1, p2, p3}
    NoPort = NoPort
    HostLength = {14}
INVARIANTS
    TransportMatches
    WorkerWithinReceiver
    RecordingHasSocket
    TornDownIsClean
    AnsweredPortsOpen
PROPERTIES
    EventChannelSurvives
    HandlersReturn
