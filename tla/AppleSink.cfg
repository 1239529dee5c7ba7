\* Rings that two or four writes fill, requests longer than the ring.
SPECIFICATION Spec
CONSTANTS
    Format <- MCFormat
    Sample = {1, 2}
    Silence = 0
    MaxWrite = 2
    MaxRender = 3
INVARIANTS
    WholeFrames
PROPERTIES
    ImplementsSampleQueue
