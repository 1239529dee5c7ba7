SPECIFICATION Spec
CONSTANT
    Body <- MCBody
INVARIANTS
    SdpMeansWhatItSays
    DecoderMatchesConfig
PROPERTIES
    FmtpMeansWhatItSays
    KeysOfOneAnnouncement
    ImplementsSession
