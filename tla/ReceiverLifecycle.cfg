\* Several configurations tell a start from those before it; on a connection
\* there are three HKP exchanges, which may fail half way, and two of SRP.
SPECIFICATION FairSpec
CONSTANTS
    Config <- MCConfig
    NoConfig = NoConfig
    Client = {phone, broken}
    LowOrder = {broken}
    NoClient = NoClient
    MaxStarts = 3
    MaxSetups = 2
INVARIANTS
    ResponseNamesServer
    AllOrNothing
    VerifiesLatestStart
    CompleteWasProved
PROPERTIES
    CallsReturn
