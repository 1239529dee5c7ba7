\* PAUSE or ANNOUNCE arrives while the worker pushes a packet.
SPECIFICATION Spec
CONSTANTS
    Format = {mono, stereo}
    NoFormat = NoFormat
INVARIANTS WriteOnlyWhenOpen
