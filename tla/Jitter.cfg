\* The network first loses, repeats and reorders packets, so that the buffer
\* overflows; then the sequence numbers wrap, and nothing more is lost.
SPECIFICATION Spec
CONSTANTS
    SeqMod = 12
    Capacity = 3
    FirstIndex = 0
    LastIndex = 18
    Window = 2
    LossEnd = 5
    Draining = FALSE
    MaxReceived = 16
INVARIANTS TypeOK PacketsConserved BufferedAhead NeededAccepted
PROPERTIES FullBufferMovesOn ImplementsOrderedStream
