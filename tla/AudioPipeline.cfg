\* Three formats: the frame's, the sink's and the one asked for may all differ.
SPECIFICATION Spec
CONSTANTS
    Format = {mono, stereo, surround}
    NoFormat = NoFormat
INVARIANTS WrittenInSinkFormat AllOpenTogether
